---- MODULE Spec2Model ----
(***************************************************************************)
(* AutoPG: the tuning engine (autopg/logic.py), the configuration-file     *)
(* formatter/reader (autopg/postgres.py), the build-config command         *)
(* (autopg/cli.py) and the pgbouncer generator (autopgpool).               *)
(*                                                                         *)
(* Conventions                                                             *)
(*  - Optional[int]: None is <<>>, a present integer n is <<n>>.           *)
(*  - A Python string is a sequence of one-character strings; a            *)
(*    configuration key is carried as one opaque symbol of such a string   *)
(*    (its characters are never whitespace, '=', '#' or a quote).          *)
(*  - db_version is a float in the source; it is kept in tenths            *)
(*    (9.6 is 96, 10 is 100), so "db_version < 10" reads "< V(10)".        *)
(*  - Memory sizes: Python integers are unbounded and the memory           *)
(*    arithmetic is exact in double precision for the sizes used here;     *)
(*    total_memory * bytes-per-unit / 1024 is computed as                  *)
(*    total_memory * (bytes-per-unit / 1024) to stay within TLC's          *)
(*    integers.                                                            *)
(***************************************************************************)
EXTENDS Integers, Sequences, FiniteSets, TLC

VARIABLES
    state,           \* PostgresConfig.state
    result,          \* the value returned by the last PostgresConfig call
    submitted,       \* history: the last payload submitted, the last one accepted
    pc,              \* position of the formatter pipeline
    key,             \* the storage key the pipeline handles
    value,           \* its kilobyte count
    text,            \* format_kb_value(value)
    parsed,          \* parse_storage_value(text)
    str_config,      \* format_postgres_values({key: value})
    conf,            \* postgresql.conf: NoFile or its lines
    base,            \* postgresql.conf.base: NoFile or its lines
    existing_config, \* the mapping returned by read_postgresql_conf
    new_config,      \* build_config: the computed mapping
    enable,          \* build_config: ENABLE_PG_STAT_STATEMENTS of this run
    original,        \* history: postgresql.conf before the first run
    pre_write,       \* history: postgresql.conf when the write was called
    runs,            \* number of build-config runs started
    last_run,        \* history: the inputs of the previous run if it wrote the file
    pool_config,     \* autopgpool: the loaded configuration
    outdir,          \* autopgpool: the files of the output directory
    exit_code,       \* autopgpool: exit status of generate, None while running
    args             \* autopgpool: the arguments of a direct library call

engine_vars == <<state, result, submitted>>
fmt_vars == <<pc, key, value, text, parsed, str_config, conf, base, existing_config>>
build_vars == <<new_config, enable, original, pre_write, runs, last_run>>
pool_vars == <<pool_config, outdir, exit_code, args>>
vars == <<state, result, submitted, pc, key, value, text, parsed, str_config, conf, base,
          existing_config, new_config, enable, original, pre_write, runs,
          last_run, pool_config, outdir, exit_code, args>>

(***************************************************************************)
(* Bounds                                                                  *)
(***************************************************************************)
MaxCpu == 9
MaxConn == 3
MaxMemGB == 2
MaxKb == 40
MaxUnits == 12
MaxLines == 3
MaxRuns == 3
MaxPartial == 2
MaxUsers == 2
MaxItems == 2
MaxWidth == 2

(***************************************************************************)
(* Python values                                                           *)
(***************************************************************************)
None == <<>>
Some(n) == <<n>>

PyNone == [t |-> "none"]
PyInt(n) == [t |-> "int", v |-> n]
PyStr(s) == [t |-> "str", v |-> s]

\* bool(x) of a payload value: None, 0 and "" are falsy
Truthy(x) ==
    CASE x.t = "none" -> FALSE
      [] x.t = "int" -> x.v # 0
      [] x.t = "str" -> x.v # <<>>

Digits == <<"0", "1", "2", "3", "4", "5", "6", "7", "8", "9">>
IsDigit(c) == \E i \in 1..10 : Digits[i] = c
DigitVal(c) == (CHOOSE i \in 1..10 : Digits[i] = c) - 1
IsSpace(c) == c \in {" ", "\t", "\n"}

RECURSIVE DigitsToNat(_)
DigitsToNat(s) ==
    IF s = <<>> THEN 0
    ELSE DigitsToNat(SubSeq(s, 1, Len(s) - 1)) * 10 + DigitVal(s[Len(s)])

RECURSIVE NatToDigits(_)
NatToDigits(n) ==
    IF n < 10 THEN <<Digits[n + 1]>>
    ELSE NatToDigits(n \div 10) \o <<Digits[(n % 10) + 1]>>

\* str(n) of an int
py_str(n) == IF n < 0 THEN <<"-">> \o NatToDigits(-n) ELSE NatToDigits(n)

\* s.strip(chars): drop leading and trailing characters that are in chars
RECURSIVE lstrip(_, _)
lstrip(s, chars) ==
    IF s # <<>> /\ s[1] \in chars THEN lstrip(Tail(s), chars) ELSE s
RECURSIVE rstrip(_, _)
rstrip(s, chars) ==
    IF s # <<>> /\ s[Len(s)] \in chars
    THEN rstrip(SubSeq(s, 1, Len(s) - 1), chars) ELSE s
strip(s, chars) == rstrip(lstrip(s, chars), chars)
Whitespace == {" ", "\t", "\n"}

endswith(s, suffix) ==
    /\ Len(s) >= Len(suffix)
    /\ SubSeq(s, Len(s) - Len(suffix) + 1, Len(s)) = suffix

\* int(s) of a str: Some(n), or None for ValueError
py_int_str(s) ==
    LET t == strip(s, Whitespace)
        signed == t # <<>> /\ t[1] \in {"+", "-"}
        body == IF signed THEN Tail(t) ELSE t
    IN IF body = <<>> \/ \E i \in 1..Len(body) : ~IsDigit(body[i]) THEN None
       ELSE IF signed /\ t[1] = "-" THEN Some(-DigitsToNat(body))
       ELSE Some(DigitsToNat(body))

\* int(x) of a payload value that is truthy: Some(n), or None for ValueError
py_int(x) == IF x.t = "int" THEN Some(x.v) ELSE py_int_str(x.v)

(***************************************************************************)
(* constants.py / logic.py constants                                       *)
(***************************************************************************)
V(n) == n * 10
DEFAULT_DB_VERSION == V(18)
OS_LINUX == "linux"
OS_WINDOWS == "windows"
OS_MAC == "mac"
DB_TYPE_WEB == "web"
DB_TYPE_OLTP == "oltp"
DB_TYPE_DW == "dw"
DB_TYPE_DESKTOP == "desktop"
DB_TYPE_MIXED == "mixed"
SIZE_UNIT_GB == "GB"
HARD_DRIVE_SSD == "SSD"
HARD_DRIVE_SAN == "SAN"
HARD_DRIVE_HDD == "HDD"

DbTypes == {DB_TYPE_WEB, DB_TYPE_OLTP, DB_TYPE_DW, DB_TYPE_DESKTOP, DB_TYPE_MIXED}
OsTypes == {OS_LINUX, OS_WINDOWS, OS_MAC}

\* SIZE_UNIT_MAP[unit] // SIZE_UNIT_MAP['KB']: kilobytes per unit
KB_PER_UNIT == [KB |-> 1, MB |-> 1024, GB |-> 1048576, TB |-> 1073741824]

\* a key is a string of one symbol
Key(name) == <<name>>

KNOWN_STORAGE_VARS ==
    {Key("shared_buffers"), Key("effective_cache_size"),
     Key("maintenance_work_mem"), Key("wal_buffers"), Key("work_mem"),
     Key("min_wal_size"), Key("max_wal_size")}

(***************************************************************************)
(* PostgresConfig                                                          *)
(***************************************************************************)
\* PostgresConfig.__init__
InitialState ==
    [db_version |-> DEFAULT_DB_VERSION,
     os_type |-> OS_LINUX,
     db_type |-> DB_TYPE_WEB,
     total_memory |-> None,
     total_memory_unit |-> SIZE_UNIT_GB,
     cpu_num |-> None,
     connection_num |-> None,
     hd_type |-> HARD_DRIVE_SSD]

\* "int(payload[f]) if payload.get(f) else None"
IntOrNone(x) == IF Truthy(x) THEN py_int(x) ELSE None
\* int() raises ValueError
Raises(x) == Truthy(x) /\ py_int(x) = None

\* if self.state[f]: an Optional[int] is truthy when present and non-zero
StateTruthy(opt) == opt # None /\ opt[1] # 0

get_total_memory_in_kb(s) ==
    IF s.total_memory = None THEN None
    ELSE Some(s.total_memory[1] * KB_PER_UNIT[s.total_memory_unit])

connection_map ==
    [web |-> 200, oltp |-> 300, dw |-> 40, desktop |-> 20, mixed |-> 100]

get_max_connections_mut(s) ==
    IF s.connection_num # None THEN s.connection_num[1]
    ELSE connection_map[s.db_type]

get_max_connections(s) ==
    IF StateTruthy(s.connection_num) THEN s.connection_num[1]
    ELSE connection_map[s.db_type]

shared_buffers_map == [web |-> 4, oltp |-> 4, dw |-> 4, desktop |-> 16, mixed |-> 4]

get_shared_buffers_mut(s) ==
    LET memory_kb == get_total_memory_in_kb(s)
        v == memory_kb[1] \div shared_buffers_map[s.db_type]
        win_memory_limit == 512 * KB_PER_UNIT["MB"]
    IN IF memory_kb = None THEN None
       ELSE IF s.os_type = OS_WINDOWS /\ v > win_memory_limit
            THEN Some(win_memory_limit)
            ELSE Some(v)

get_shared_buffers(s) ==
    LET memory_kb == get_total_memory_in_kb(s)
        v == memory_kb[1] \div shared_buffers_map[s.db_type]
        win_memory_limit == 512 * KB_PER_UNIT["MB"]
    IN IF memory_kb = None THEN None
       ELSE IF s.db_version < V(10) /\ s.os_type = OS_WINDOWS /\ v > win_memory_limit
            THEN Some(win_memory_limit)
            ELSE Some(v)

get_effective_cache_size(s) ==
    LET memory_kb == get_total_memory_in_kb(s)
    IN IF memory_kb = None THEN None
       ELSE IF s.db_type = DB_TYPE_DESKTOP THEN Some(memory_kb[1] \div 4)
       ELSE Some((memory_kb[1] * 3) \div 4)

maintenance_map == [web |-> 16, oltp |-> 16, dw |-> 8, desktop |-> 16, mixed |-> 16]

get_maintenance_work_mem_mut(s) ==
    LET memory_kb == get_total_memory_in_kb(s)
        v == memory_kb[1] \div maintenance_map[s.db_type]
        memory_limit == 2 * KB_PER_UNIT["GB"]
    IN IF memory_kb = None THEN None
       ELSE IF v >= memory_limit THEN Some(memory_limit)
       ELSE Some(v)

get_maintenance_work_mem(s) ==
    LET memory_kb == get_total_memory_in_kb(s)
        v == memory_kb[1] \div maintenance_map[s.db_type]
        memory_limit == 2 * KB_PER_UNIT["GB"]
    IN IF memory_kb = None THEN None
       ELSE IF v >= memory_limit
            THEN IF s.os_type = OS_WINDOWS
                 THEN Some(memory_limit - 1 * KB_PER_UNIT["MB"])
                 ELSE Some(memory_limit)
       ELSE Some(v)

get_wal_buffers_mut(s) ==
    LET shared_buffers == get_shared_buffers(s)
        v0 == (3 * shared_buffers[1]) \div 100
        max_wal_buffer == 16 * KB_PER_UNIT["MB"]
        v1 == IF v0 > max_wal_buffer THEN max_wal_buffer ELSE v0
        v3 == IF v1 < 32 THEN 32 ELSE v1
    IN IF shared_buffers = None THEN None ELSE Some(v3)

get_wal_buffers(s) ==
    LET shared_buffers == get_shared_buffers(s)
        v0 == (3 * shared_buffers[1]) \div 100
        max_wal_buffer == 16 * KB_PER_UNIT["MB"]
        v1 == IF v0 > max_wal_buffer THEN max_wal_buffer ELSE v0
        wal_buffer_near_value == 14 * KB_PER_UNIT["MB"]
        v2 == IF wal_buffer_near_value < v1 /\ v1 < max_wal_buffer
              THEN max_wal_buffer ELSE v1
        v3 == IF v2 < 32 THEN 32 ELSE v2
    IN IF shared_buffers = None THEN None ELSE Some(v3)

\* math.ceil(n / 2)
ceil_half(n) == (n + 1) \div 2

KV(k, v) == [key |-> k, value |-> v]

get_parallel_settings_mut(s) ==
    LET cpu == s.cpu_num[1]
        half == ceil_half(cpu)
        workers_per_gather == IF half > 4 THEN 4 ELSE half
        parallel_maintenance_workers == IF half > 4 THEN 4 ELSE half
    IN IF ~StateTruthy(s.cpu_num) \/ cpu < 4 THEN <<>>
       ELSE <<KV("max_worker_processes", cpu),
              KV("max_parallel_workers_per_gather", workers_per_gather)>>
            \o (IF s.db_version >= V(10)
                THEN <<KV("max_parallel_workers", cpu)>> ELSE <<>>)
            \o (IF s.db_version >= V(11)
                THEN <<KV("max_parallel_maintenance_workers",
                          parallel_maintenance_workers)>>
                ELSE <<>>)

get_parallel_settings_lt2(s) ==
    LET cpu == s.cpu_num[1]
        half == ceil_half(cpu)
        workers_per_gather ==
            IF s.db_type # DB_TYPE_DW /\ half > 4 THEN 4 ELSE half
        parallel_maintenance_workers == IF half > 4 THEN 4 ELSE half
    IN IF ~StateTruthy(s.cpu_num) \/ cpu < 2 THEN <<>>
       ELSE <<KV("max_worker_processes", cpu),
              KV("max_parallel_workers_per_gather", workers_per_gather)>>
            \o (IF s.db_version >= V(10)
                THEN <<KV("max_parallel_workers", cpu)>> ELSE <<>>)
            \o (IF s.db_version >= V(11)
                THEN <<KV("max_parallel_maintenance_workers",
                          parallel_maintenance_workers)>>
                ELSE <<>>)

get_parallel_settings(s) ==
    LET cpu == s.cpu_num[1]
        half == ceil_half(cpu)
        workers_per_gather ==
            IF s.db_type # DB_TYPE_DW /\ half > 4 THEN 4 ELSE half
        parallel_maintenance_workers == IF half > 4 THEN 4 ELSE half
    IN IF ~StateTruthy(s.cpu_num) \/ cpu < 4 THEN <<>>
       ELSE <<KV("max_worker_processes", cpu),
              KV("max_parallel_workers_per_gather", workers_per_gather)>>
            \o (IF s.db_version >= V(10)
                THEN <<KV("max_parallel_workers", cpu)>> ELSE <<>>)
            \o (IF s.db_version >= V(11)
                THEN <<KV("max_parallel_maintenance_workers",
                          parallel_maintenance_workers)>>
                ELSE <<>>)

Abs(n) == IF n < 0 THEN -n ELSE n
\* int(num / den): the quotient truncated toward zero (den # 0)
TruncDiv(num, den) ==
    IF (num >= 0) = (den > 0) THEN Abs(num) \div Abs(den)
    ELSE -(Abs(num) \div Abs(den))

work_mem_map == [web |-> 1, oltp |-> 1, dw |-> 2, desktop |-> 6, mixed |-> 2]

\* the loop over parallel_settings: the first entry with the key decides
parallel_workers_of(parallel_settings) ==
    LET hits == SelectSeq(parallel_settings,
                          LAMBDA e : e.key = "max_parallel_workers_per_gather")
    IN IF hits # <<>> /\ hits[1].value > 0 THEN hits[1].value ELSE 1

get_work_mem_mut(s) ==
    LET memory_kb == get_total_memory_in_kb(s)
        shared_buffers == get_shared_buffers(s)
        max_connections == get_max_connections(s)
        v == TruncDiv(memory_kb[1] - shared_buffers[1],
                      max_connections * 3 * work_mem_map[s.db_type])
    IN IF memory_kb = None \/ shared_buffers = None THEN None
       ELSE Some(IF v > 64 THEN v ELSE 64)

get_work_mem_ceil(s) ==
    LET memory_kb == get_total_memory_in_kb(s)
        shared_buffers == get_shared_buffers(s)
        max_connections == get_max_connections(s)
        parallel_workers == parallel_workers_of(get_parallel_settings(s))
        v == TruncDiv(memory_kb[1] - shared_buffers[1],
                      max_connections * 3 * parallel_workers
                          * work_mem_map[s.db_type]) + 1
    IN IF memory_kb = None \/ shared_buffers = None THEN None
       ELSE Some(IF v > 64 THEN v ELSE 64)

get_work_mem(s) ==
    LET memory_kb == get_total_memory_in_kb(s)
        shared_buffers == get_shared_buffers(s)
        max_connections == get_max_connections(s)
        parallel_workers == parallel_workers_of(get_parallel_settings(s))
        \* ((memory_kb - shared_buffers) / (max_connections * 3)
        \*      / parallel_workers) / work_mem_map, then int()
        v == TruncDiv(memory_kb[1] - shared_buffers[1],
                      max_connections * 3 * parallel_workers
                          * work_mem_map[s.db_type])
    IN IF memory_kb = None \/ shared_buffers = None THEN None
       ELSE Some(IF v > 64 THEN v ELSE 64)

get_wal_level_mut(s) ==
    IF s.db_type \in {DB_TYPE_DESKTOP, DB_TYPE_MIXED}
    THEN <<KV("wal_level", "minimal"), KV("max_wal_senders", "0")>>
    ELSE <<>>

get_wal_level(s) ==
    IF s.db_type = DB_TYPE_DESKTOP
    THEN <<KV("wal_level", "minimal"), KV("max_wal_senders", "0")>>
    ELSE <<>>

(***************************************************************************)
(* Payloads handed to submit_configuration                                 *)
(***************************************************************************)
DefaultPayload ==
    [db_version |-> V(14), os_type |-> OS_LINUX, db_type |-> DB_TYPE_WEB,
     total_memory |-> PyNone, total_memory_unit |-> "GB", cpu_num |-> PyNone,
     connection_num |-> PyNone, hd_type |-> HARD_DRIVE_SSD]

DbVersions == {96, V(10), V(11)}

ConnInputs ==
    {PyNone, PyStr(<<"0">>), PyInt(45)} \cup {PyInt(n) : n \in -1..MaxConn}

CpuInputs ==
    {PyNone, PyStr(<<"0">>), PyStr(<<"1", "2">>), PyInt(31)}
        \cup {PyInt(n) : n \in -1..MaxCpu}

\* <<total_memory, total_memory_unit>>
MemInputs ==
    {<<PyNone, "GB">>, <<PyStr(<<"0">>), "MB">>, <<PyInt(4), "MB">>,
     <<PyInt(1911468), "KB">>, <<PyInt(1953), "MB">>, <<PyInt(16), "GB">>,
     <<PyInt(32767), "MB">>, <<PyInt(32), "GB">>, <<PyInt(-4), "GB">>}
        \cup {<<PyInt(n), "GB">> : n \in 1..MaxMemGB}

\* <<os_type, db_version>>
Platforms ==
    {<<OS_LINUX, V(10)>>, <<OS_MAC, 96>>, <<OS_WINDOWS, 96>>,
     <<OS_WINDOWS, V(10)>>}

ConnPayloads ==
    {[DefaultPayload EXCEPT !.db_type = d, !.connection_num = c] :
        d \in DbTypes, c \in ConnInputs}

CpuPayloads ==
    {[DefaultPayload EXCEPT !.db_type = d, !.db_version = v, !.cpu_num = c] :
        d \in DbTypes, v \in DbVersions, c \in CpuInputs}
        \cup {[DefaultPayload EXCEPT !.db_version = 105, !.cpu_num = PyInt(MaxCpu)]}

MemPayloads ==
    {[DefaultPayload EXCEPT !.db_type = d, !.os_type = o[1], !.db_version = o[2],
                            !.total_memory = m[1], !.total_memory_unit = m[2]] :
        d \in DbTypes, o \in Platforms, m \in MemInputs}

WorkMemPayloads ==
    {[DefaultPayload EXCEPT !.db_type = d, !.total_memory = m[1],
                            !.total_memory_unit = m[2], !.connection_num = c,
                            !.cpu_num = p] :
        d \in DbTypes,
        m \in {<<PyInt(64), "MB">>, <<PyInt(MaxMemGB), "GB">>, <<PyInt(-4), "GB">>},
        c \in {PyNone, PyInt(-1), PyInt(MaxConn)},
        p \in {PyNone, PyInt(MaxCpu)}}

\* a payload whose cpu_num is not a number: int() raises
BadPayloads == {[DefaultPayload EXCEPT !.cpu_num = PyStr(<<"x">>)]}

Payloads ==
    ConnPayloads \cup CpuPayloads \cup MemPayloads \cup WorkMemPayloads
        \cup BadPayloads

(***************************************************************************)
(* PostgresConfig operations                                               *)
(***************************************************************************)
Returned(op, v) == [op |-> op, value |-> v]

\* the history kept of submit_configuration calls since construction or reset
Submitted(payload, accepted) == [payload |-> payload, accepted |-> accepted]
NoneSubmitted == Submitted(None, None)

reset_configuration ==
    /\ state' = InitialState
    /\ result' = Returned("reset_configuration", None)
    /\ submitted' = NoneSubmitted
    /\ UNCHANGED <<fmt_vars, build_vars, pool_vars>>

submit_configuration ==
    \E payload \in Payloads :
        /\ IF \/ Raises(payload.total_memory)
              \/ Raises(payload.cpu_num)
              \/ Raises(payload.connection_num)
           THEN /\ state' = state
                /\ result' = Returned("submit_configuration", "ValueError")
                /\ submitted' = Submitted(Some(payload), submitted.accepted)
           ELSE /\ state' =
                     [db_version |-> payload.db_version,
                      os_type |-> payload.os_type,
                      db_type |-> payload.db_type,
                      total_memory |-> IntOrNone(payload.total_memory),
                      total_memory_unit |-> payload.total_memory_unit,
                      cpu_num |-> IntOrNone(payload.cpu_num),
                      connection_num |-> IntOrNone(payload.connection_num),
                      hd_type |-> payload.hd_type]
                /\ result' = Returned("submit_configuration", None)
                /\ submitted' = Submitted(Some(payload), Some(payload))
        /\ UNCHANGED <<fmt_vars, build_vars, pool_vars>>

Call_mut(op, v) ==
    /\ result' = Returned(op, v)
    /\ state' = InitialState
    /\ UNCHANGED submitted
    /\ UNCHANGED <<fmt_vars, build_vars, pool_vars>>

Call(op, v) ==
    /\ result' = Returned(op, v)
    /\ UNCHANGED state
    /\ UNCHANGED submitted
    /\ UNCHANGED <<fmt_vars, build_vars, pool_vars>>

call_get_max_connections == Call("get_max_connections", get_max_connections(state))
call_get_shared_buffers == Call("get_shared_buffers", get_shared_buffers(state))
call_get_effective_cache_size ==
    Call("get_effective_cache_size", get_effective_cache_size(state))
call_get_maintenance_work_mem ==
    Call("get_maintenance_work_mem", get_maintenance_work_mem(state))
call_get_wal_buffers == Call("get_wal_buffers", get_wal_buffers(state))
call_get_parallel_settings ==
    Call("get_parallel_settings", get_parallel_settings(state))
call_get_work_mem == Call("get_work_mem", get_work_mem(state))
call_get_wal_level == Call("get_wal_level", get_wal_level(state))

NoFile == [exists |-> FALSE]
File(lines) == [exists |-> TRUE, lines |-> lines]
EmptyMap == [k \in {} |-> None]

\* the variables of build-config and of autopgpool before either has run
NoBuild ==
    /\ new_config = EmptyMap
    /\ enable = FALSE
    /\ original = NoFile
    /\ pre_write = NoFile
    /\ runs = 0
    /\ last_run = None
NoPool ==
    /\ pool_config = None
    /\ outdir = None
    /\ exit_code = None
    /\ args = None

Init ==
    /\ state = InitialState
    /\ result = Returned("__init__", None)
    /\ submitted = NoneSubmitted
    /\ pc = "idle"
    /\ key = <<>>
    /\ value = 0
    /\ text = <<>>
    /\ parsed = None
    /\ str_config = EmptyMap
    /\ conf = NoFile
    /\ base = NoFile
    /\ existing_config = EmptyMap
    /\ NoBuild
    /\ NoPool

Next ==
    \/ reset_configuration
    \/ submit_configuration
    \/ call_get_max_connections
    \/ call_get_shared_buffers
    \/ call_get_effective_cache_size
    \/ call_get_maintenance_work_mem
    \/ call_get_wal_buffers
    \/ call_get_parallel_settings
    \/ call_get_work_mem
    \/ call_get_wal_level

Spec == Init /\ [][Next]_vars

(***************************************************************************)
(* postgres.py: formatters, reader and writer                              *)
(***************************************************************************)
PyBool(b) == [t |-> "bool", v |-> b]

Upper == <<"A", "B", "C", "D", "E", "F", "G", "H", "I", "J", "K", "L", "M",
           "N", "O", "P", "Q", "R", "S", "T", "U", "V", "W", "X", "Y", "Z">>
Lower == <<"a", "b", "c", "d", "e", "f", "g", "h", "i", "j", "k", "l", "m",
           "n", "o", "p", "q", "r", "s", "t", "u", "v", "w", "x", "y", "z">>
\* s.lower()
lower(s) ==
    [i \in 1..Len(s) |->
        IF \E j \in 1..26 : Upper[j] = s[i]
        THEN Lower[CHOOSE j \in 1..26 : Upper[j] = s[i]]
        ELSE s[i]]
\* s.isdigit()
isdigit(s) == s # <<>> /\ \A i \in 1..Len(s) : IsDigit(s[i])

format_value(x) ==
    CASE x.t = "bool" -> IF x.v THEN <<"t", "r", "u", "e">>
                         ELSE <<"f", "a", "l", "s", "e">>
      [] x.t = "int" -> py_str(x.v)
      [] x.t = "float" -> py_str(x.whole) \o <<".">> \o py_str(x.frac)
      [] x.t = "str" -> x.v

parse_value(s) ==
    IF lower(s) \in {<<"t", "r", "u", "e">>, <<"f", "a", "l", "s", "e">>}
    THEN PyBool(lower(s) = <<"t", "r", "u", "e">>)
    ELSE IF isdigit(s) THEN PyInt(DigitsToNat(s))
    ELSE PyStr(s)

format_kb_value_mut(v) ==
    IF v = 0 THEN <<"0", "k", "B">>
    ELSE IF v % KB_PER_UNIT["MB"] = 0
         THEN py_str(v \div KB_PER_UNIT["MB"]) \o <<"M", "B">>
    ELSE IF v % KB_PER_UNIT["GB"] = 0
         THEN py_str(v \div KB_PER_UNIT["GB"]) \o <<"G", "B">>
    ELSE py_str(v) \o <<"k", "B">>

format_kb_value(v) ==
    IF v = 0 THEN <<"0", "k", "B">>
    ELSE IF v % KB_PER_UNIT["GB"] = 0
         THEN py_str(v \div KB_PER_UNIT["GB"]) \o <<"G", "B">>
    ELSE IF v % KB_PER_UNIT["MB"] = 0
         THEN py_str(v \div KB_PER_UNIT["MB"]) \o <<"M", "B">>
    ELSE py_str(v) \o <<"k", "B">>

\* int(n) * m, or None when int() raises ValueError
Scaled(n, m) == IF n = None THEN None ELSE Some(n[1] * m)

parse_storage_value_mut(s) ==
    IF endswith(s, <<"G", "B">>)
    THEN Scaled(py_int_str(strip(s, {"G", "B"})), KB_PER_UNIT["MB"])
    ELSE IF endswith(s, <<"M", "B">>)
    THEN Scaled(py_int_str(strip(s, {"M", "B"})), KB_PER_UNIT["MB"])
    ELSE py_int_str(strip(s, {"k", "B"}))

\* Some(kilobytes), or None when int() raises ValueError
parse_storage_value(s) ==
    IF endswith(s, <<"G", "B">>)
    THEN Scaled(py_int_str(strip(s, {"G", "B"})), KB_PER_UNIT["GB"])
    ELSE IF endswith(s, <<"M", "B">>)
    THEN Scaled(py_int_str(strip(s, {"M", "B"})), KB_PER_UNIT["MB"])
    ELSE py_int_str(strip(s, {"k", "B"}))

Quoted(s) == <<"'">> \o s \o <<"'">>

\* format_kb_value on a float: "%" and "//" keep the float, so the quotient
\* prints with its ".0"
format_kb_value_float(x) ==
    IF x.whole = 0 /\ x.frac = 0 THEN <<"0", "k", "B">>
    ELSE IF x.frac = 0 /\ x.whole % KB_PER_UNIT["GB"] = 0
         THEN py_str(x.whole \div KB_PER_UNIT["GB"]) \o <<".", "0", "G", "B">>
    ELSE IF x.frac = 0 /\ x.whole % KB_PER_UNIT["MB"] = 0
         THEN py_str(x.whole \div KB_PER_UNIT["MB"]) \o <<".", "0", "M", "B">>
    ELSE format_value(x) \o <<"k", "B">>

\* format_kb_value(None) evaluates None % int: TypeError
format_raises(config) ==
    \E k \in DOMAIN config : k \in KNOWN_STORAGE_VARS /\ config[k] = PyNone

format_postgres_values(config) ==
    [k \in DOMAIN config |->
        IF k \in KNOWN_STORAGE_VARS
        THEN IF config[k].t = "float" THEN Quoted(format_kb_value_float(config[k]))
             ELSE Quoted(format_kb_value(config[k].v))
        ELSE IF config[k].t = "str" THEN Quoted(format_value(config[k]))
        ELSE format_value(config[k])]

\* the keys of the model in Python's string order, as sorted() yields them
KeyOrder ==
    <<Key("checkpoint_completion_target"), Key("datestyle"),
      Key("default_statistics_target"), Key("dynamic_shared_memory_type"),
      Key("effective_cache_size"), Key("effective_io_concurrency"),
      Key("huge_pages"), Key("listen_addresses"), Key("log_timezone"),
      Key("maintenance_work_mem"), Key("max_connections"),
      Key("max_parallel_maintenance_workers"), Key("max_parallel_workers"),
      Key("max_parallel_workers_per_gather"), Key("max_wal_senders"),
      Key("max_wal_size"), Key("max_worker_processes"), Key("min_wal_size"),
      Key("pg_stat_statements.max"), Key("pg_stat_statements.track"),
      Key("random_page_cost"), Key("shared_buffers"),
      Key("shared_preload_libraries"), Key("ssl"), Key("timezone"),
      Key("wal_buffers"), Key("wal_level"), Key("work_mem")>>
sorted(keys) == SelectSeq(KeyOrder, LAMBDA k : k \in keys)

\* f"{key} = {value}\n"
ConfLine(k, v) == k \o <<" ", "=", " ">> \o v
\* "# Generated by AutoPG\n\n"
Header == <<<<"#", " ", "Generated", " ", "by", " ", "AutoPG">>, <<>>>>

written_lines(config) ==
    LET ks == sorted(DOMAIN config)
    IN Header \o [i \in 1..Len(ks) |-> ConfLine(ks[i], config[ks[i]])]

\* line.split("=", 1): None when the line holds no "="
split_eq(line) ==
    IF \E i \in 1..Len(line) : line[i] = "="
    THEN LET i == CHOOSE j \in 1..Len(line) :
                      /\ line[j] = "="
                      /\ \A h \in 1..(j - 1) : line[h] # "="
         IN Some(<<SubSeq(line, 1, i - 1), SubSeq(line, i + 1, Len(line))>>)
    ELSE None

Put_mut(config, k, v) ==
    [x \in DOMAIN config \cup {k} |->
        IF x \in DOMAIN config THEN config[x] ELSE v]

Put(config, k, v) ==
    [x \in DOMAIN config \cup {k} |-> IF x = k THEN v ELSE config[x]]

RECURSIVE read_lines(_, _)
read_lines(lines, config) ==
    IF lines = <<>> THEN config
    ELSE LET line == strip(Head(lines), Whitespace)
             parts == split_eq(line)
             k == strip(parts[1][1], Whitespace)
             raw == strip(strip(parts[1][2], Whitespace), {"'"})
             stored == parse_storage_value(raw)
         IN IF line = <<>> \/ line[1] = "#" THEN read_lines(Tail(lines), config)
            ELSE IF parts = None THEN read_lines(Tail(lines), config)
            ELSE IF k \in KNOWN_STORAGE_VARS
                 THEN IF stored = None THEN read_lines(Tail(lines), config)
                      ELSE read_lines(Tail(lines), Put(config, k, PyInt(stored[1])))
            ELSE read_lines(Tail(lines), Put(config, k, parse_value(raw)))

read_postgresql_conf_mut(conf_file, base_file) ==
    LET target == IF conf_file.exists THEN conf_file ELSE base_file
    IN IF ~target.exists THEN EmptyMap
       ELSE read_lines(target.lines, EmptyMap)

read_postgresql_conf(conf_file, base_file) ==
    LET target == IF base_file.exists THEN base_file ELSE conf_file
    IN IF ~target.exists THEN EmptyMap
       ELSE read_lines(target.lines, EmptyMap)

(***************************************************************************)
(* The formatter pipeline: format_kb_value, parse_storage_value, then      *)
(* format_postgres_values, write_postgresql_conf, read_postgresql_conf     *)
(***************************************************************************)
KbValues ==
    (0..MaxKb)
        \cup {k * 1024 : k \in 1..MaxUnits}
        \cup {k * 1048576 : k \in 1..MaxUnits}
        \cup {1000, 1023, 1025, 51200, 1047552, 1048575, 1048577, 1049600, 5242880}

FmtKeys == KNOWN_STORAGE_VARS \cup {Key("max_connections")}

\* a postgresql.conf written by hand
UserConf ==
    <<<<"#", " ", "comment">>,
      <<"shared_buffers", " ", "=", " ", "1", "2", "8", "M", "B">>,
      <<"work_mem", " ", "=", " ", "'", "4", "M", "B", "'">>,
      <<"max_connections", " ", "=", " ", "1", "0", "0">>,
      <<"invalid_line_without_equals">>>>

InitFmt ==
    /\ state = InitialState
    /\ result = Returned("__init__", None)
    /\ submitted = NoneSubmitted
    /\ pc = "start"
    /\ key \in FmtKeys
    /\ value \in KbValues
    /\ text = <<>>
    /\ parsed = None
    /\ str_config = EmptyMap
    /\ conf \in {NoFile, File(UserConf)}
    /\ base = NoFile
    /\ existing_config = EmptyMap
    /\ NoBuild
    /\ NoPool

call_format_kb_value ==
    /\ pc = "start"
    /\ text' = format_kb_value(value)
    /\ pc' = "formatted"
    /\ UNCHANGED <<state, result, submitted, key, value, parsed, str_config, conf, base,
                   existing_config,
                   build_vars, pool_vars>>

call_parse_storage_value ==
    /\ pc = "formatted"
    /\ parsed' = parse_storage_value(text)
    /\ pc' = "parsed"
    /\ UNCHANGED <<state, result, submitted, key, value, text, str_config, conf, base,
                   existing_config,
                   build_vars, pool_vars>>

call_format_postgres_values ==
    /\ pc = "parsed"
    /\ str_config' = format_postgres_values([k \in {key} |-> PyInt(value)])
    /\ pc' = "config_formatted"
    /\ UNCHANGED <<state, result, submitted, key, value, text, parsed, conf, base,
                   existing_config,
                   build_vars, pool_vars>>

call_write_postgresql_conf ==
    /\ pc = "config_formatted"
    /\ \E backup \in BOOLEAN :
           base' = IF backup /\ conf.exists THEN conf ELSE base
    /\ conf' = File(written_lines(str_config))
    /\ pc' = "written"
    /\ UNCHANGED <<state, result, submitted, key, value, text, parsed, str_config,
                   existing_config,
                   build_vars, pool_vars>>

call_read_postgresql_conf ==
    /\ pc = "written"
    /\ existing_config' = read_postgresql_conf(conf, base)
    /\ pc' = "read"
    /\ UNCHANGED <<state, result, submitted, key, value, text, parsed, str_config, conf, base,
                   build_vars, pool_vars>>

NextFmt ==
    \/ call_format_kb_value
    \/ call_parse_storage_value
    \/ call_format_postgres_values
    \/ call_write_postgresql_conf
    \/ call_read_postgresql_conf

SpecFmt == InitFmt /\ [][NextFmt]_vars

(***************************************************************************)
(* read_postgresql_conf on a configuration directory with arbitrary files  *)
(***************************************************************************)
\* the kinds of line a postgresql.conf can hold
Lines ==
    [comment |-> <<"#", " ", "comment">>,
     blank |-> <<" ">>,
     no_equals |-> <<"invalid_line_without_equals">>,
     bad_size |-> <<"work_mem", " ", "=", " ", "x", "M", "B">>,
     shared128 |-> <<"shared_buffers", " ", "=", " ", "1", "2", "8", "M", "B">>,
     shared256 |-> <<"shared_buffers", "=", "'", "2", "5", "6", "M", "B", "'">>,
     conn |-> <<"max_connections", " ", "=", " ", "1", "0", "0">>,
     ssl |-> <<"ssl", " ", "=", " ", "o", "n">>]
LineKinds == {Lines[kind] : kind \in DOMAIN Lines}

SeqsUpTo(S, n) == UNION {[1..m -> S] : m \in 0..n}
ConfFiles == {NoFile} \cup {File(l) : l \in SeqsUpTo(LineKinds, MaxLines)}
BaseFiles == {NoFile} \cup {File(l) : l \in SeqsUpTo(LineKinds, 1)}

InitRead ==
    /\ state = InitialState
    /\ result = Returned("__init__", None)
    /\ submitted = NoneSubmitted
    /\ pc = "dir"
    /\ key = <<>>
    /\ value = 0
    /\ text = <<>>
    /\ parsed = None
    /\ str_config = EmptyMap
    /\ conf \in ConfFiles
    /\ base \in BaseFiles
    /\ existing_config = EmptyMap
    /\ NoBuild
    /\ NoPool

read_directory ==
    /\ pc = "dir"
    /\ existing_config' = read_postgresql_conf(conf, base)
    /\ pc' = "dir_read"
    /\ UNCHANGED <<state, result, submitted, key, value, text, parsed, str_config, conf, base,
                   build_vars, pool_vars>>

NextRead == read_directory

SpecRead == InitRead /\ [][NextRead]_vars

(***************************************************************************)
(* cli.py: build_config, run repeatedly on one configuration directory     *)
(***************************************************************************)
SIZE_UNIT_MB == "MB"

\* a float with one fractional digit: whole.frac
PyFloat(whole, frac) == [t |-> "float", whole |-> whole, frac |-> frac]

get_huge_pages(s) ==
    LET memory_kb == get_total_memory_in_kb(s)
    IN IF memory_kb = None THEN "off"
       ELSE IF memory_kb[1] >= 33554432 THEN "try" ELSE "off"

min_wal_size_map ==
    [web |-> 1024 * KB_PER_UNIT["MB"], oltp |-> 2048 * KB_PER_UNIT["MB"],
     dw |-> 4096 * KB_PER_UNIT["MB"], desktop |-> 100 * KB_PER_UNIT["MB"],
     mixed |-> 1024 * KB_PER_UNIT["MB"]]

max_wal_size_map ==
    [web |-> 4096 * KB_PER_UNIT["MB"], oltp |-> 8192 * KB_PER_UNIT["MB"],
     dw |-> 16384 * KB_PER_UNIT["MB"], desktop |-> 2048 * KB_PER_UNIT["MB"],
     mixed |-> 4096 * KB_PER_UNIT["MB"]]

\* "/" makes both values floats
get_checkpoint_segments(s) ==
    <<KV("min_wal_size", PyFloat(min_wal_size_map[s.db_type], 0)),
      KV("max_wal_size", PyFloat(max_wal_size_map[s.db_type], 0))>>

get_checkpoint_completion_target(s) == PyFloat(0, 9)

statistics_map ==
    [web |-> 100, oltp |-> 100, dw |-> 500, desktop |-> 100, mixed |-> 100]

get_default_statistics_target(s) == statistics_map[s.db_type]

cost_map == [HDD |-> PyFloat(4, 0), SSD |-> PyFloat(1, 1), SAN |-> PyFloat(1, 1)]

get_random_page_cost(s) == cost_map[s.hd_type]

concurrency_map == [HDD |-> 2, SSD |-> 200, SAN |-> 300]

get_effective_io_concurrency(s) ==
    IF s.os_type # OS_LINUX THEN None ELSE Some(concurrency_map[s.hd_type])

\* the three pg_stat_statements settings when the toggle is on, else nothing
get_pg_stat_statements_config(s, enable_pg_stat_statements) ==
    IF enable_pg_stat_statements
    THEN <<KV("shared_preload_libraries", PyStr(<<"pg_stat_statements">>)),
           KV("pg_stat_statements.track", PyStr(<<"all">>)),
           KV("pg_stat_statements.max", PyInt(10000))>>
    ELSE <<>>

\* Optional[int] as a value of the mapping
OptPy(opt) == IF opt = None THEN PyNone ELSE PyInt(opt[1])
Str(word) == PyStr(<<word>>)

\* a getter's key/value list as the mapping build_config merges in; kind
\* tells how the list carries its values: "int", "str", or "py" for values
\* that are already tagged
AsMapping(kvs, kind) ==
    [k \in {Key(kvs[i].key) : i \in 1..Len(kvs)} |->
        LET v == kvs[CHOOSE i \in 1..Len(kvs) : Key(kvs[i].key) = k].value
        IN CASE kind = "int" -> PyInt(v)
             [] kind = "str" -> Str(v)
             [] kind = "py" -> v]

\* {**a, **b}
Merge_mut(a, b) ==
    [k \in DOMAIN a \cup DOMAIN b |-> IF k \in DOMAIN a THEN a[k] ELSE b[k]]

Merge(a, b) ==
    [k \in DOMAIN a \cup DOMAIN b |-> IF k \in DOMAIN b THEN b[k] ELSE a[k]]

\* build_config: the recommended settings
compute_new_config(s, enable_pg_stat_statements) ==
    LET recommended ==
            [k \in {Key("shared_buffers"), Key("effective_cache_size"),
                    Key("maintenance_work_mem"), Key("work_mem"),
                    Key("huge_pages"), Key("default_statistics_target"),
                    Key("random_page_cost"), Key("checkpoint_completion_target"),
                    Key("max_connections")} |->
                CASE k = Key("shared_buffers") -> OptPy(get_shared_buffers(s))
                  [] k = Key("effective_cache_size") ->
                         OptPy(get_effective_cache_size(s))
                  [] k = Key("maintenance_work_mem") ->
                         OptPy(get_maintenance_work_mem(s))
                  [] k = Key("work_mem") -> OptPy(get_work_mem(s))
                  [] k = Key("huge_pages") -> Str(get_huge_pages(s))
                  [] k = Key("default_statistics_target") ->
                         PyInt(get_default_statistics_target(s))
                  [] k = Key("random_page_cost") -> get_random_page_cost(s)
                  [] k = Key("checkpoint_completion_target") ->
                         get_checkpoint_completion_target(s)
                  [] k = Key("max_connections") -> PyInt(get_max_connections(s))]
        wal == Merge(recommended, AsMapping(get_checkpoint_segments(s), "py"))
        parallel == Merge(wal, AsMapping(get_parallel_settings(s), "int"))
        level == Merge(parallel, AsMapping(get_wal_level(s), "str"))
        statements ==
            Merge(level,
                  AsMapping(get_pg_stat_statements_config(
                                s, enable_pg_stat_statements), "py"))
        wal_buffers == get_wal_buffers(s)
        with_wal_buffers ==
            IF wal_buffers # None
            THEN Put(statements, Key("wal_buffers"), PyInt(wal_buffers[1]))
            ELSE statements
        io_concurrency == get_effective_io_concurrency(s)
        with_io ==
            IF io_concurrency # None
            THEN Put(with_wal_buffers, Key("effective_io_concurrency"),
                     PyInt(io_concurrency[1]))
            ELSE with_wal_buffers
        docker ==
            [k \in {Key("listen_addresses"), Key("dynamic_shared_memory_type"),
                    Key("log_timezone"), Key("datestyle"), Key("timezone")} |->
                CASE k = Key("listen_addresses") -> Str("*")
                  [] k = Key("dynamic_shared_memory_type") -> Str("posix")
                  [] k = Key("log_timezone") -> Str("Etc/UTC")
                  [] k = Key("datestyle") -> Str("iso, mdy")
                  [] k = Key("timezone") -> Str("Etc/UTC")]
    IN Merge(with_io, docker)

\* write_postgresql_conf, first statement: the new postgresql.conf.base
backup_copy_keep(conf_file, base_file, backup) ==
    IF backup /\ conf_file.exists /\ ~base_file.exists THEN conf_file
    ELSE base_file

backup_copy_truncated(conf_file, base_file, backup) ==
    IF backup /\ conf_file.exists THEN File(<<>>) ELSE base_file

backup_copy(conf_file, base_file, backup) ==
    IF backup /\ conf_file.exists THEN conf_file ELSE base_file

\* open(conf_path, "w"): the file exists and is empty
opened(conf_file) == File(<<>>)

\* the directories build-config is first run on
UserPgss ==
    <<<<"shared_preload_libraries", " ", "=", " ", "'", "timescaledb", "'">>,
      Lines.ssl>>
BuildConfs == {NoFile, File(<<>>), File(UserConf), File(UserPgss)}

\* what the probes and the environment report
BuildMemory == {None, Some(1024)}
BuildCpu == {None, Some(4)}

InitBuild ==
    /\ state = InitialState
    /\ result = Returned("__init__", None)
    /\ submitted = NoneSubmitted
    /\ pc = "idle"
    /\ key = <<>>
    /\ value = 0
    /\ text = <<>>
    /\ parsed = None
    /\ str_config = EmptyMap
    /\ conf \in BuildConfs
    /\ base = NoFile
    /\ existing_config = EmptyMap
    /\ new_config = EmptyMap
    /\ enable = FALSE
    /\ original = conf
    /\ pre_write = NoFile
    /\ runs = 0
    /\ last_run = None
    /\ NoPool

\* build_config up to the call of write_postgresql_conf
build_config ==
    /\ pc = "idle"
    /\ runs < MaxRuns
    /\ \E memory \in BuildMemory, cpu \in BuildCpu, toggle \in BOOLEAN :
           LET config_payload ==
                   [db_version |-> V(16),
                    os_type |-> OS_LINUX,
                    db_type |-> DB_TYPE_WEB,
                    total_memory |-> memory,
                    total_memory_unit |-> SIZE_UNIT_MB,
                    cpu_num |-> cpu,
                    connection_num |-> Some(100),
                    hd_type |-> HARD_DRIVE_SSD]
               computed == compute_new_config(config_payload, toggle)
               existing == read_postgresql_conf(conf, base)
               merged == Merge(computed, existing)
           IN /\ state' = config_payload
              /\ enable' = toggle
              /\ new_config' = computed
              /\ existing_config' = existing
              /\ IF format_raises(merged)
                 THEN /\ str_config' = EmptyMap
                      /\ pc' = "crashed"
                 ELSE /\ str_config' = format_postgres_values(merged)
                      /\ pc' = "formatted"
    /\ runs' = runs + 1
    /\ UNCHANGED <<result, submitted, key, value, text, parsed, conf, base, original,
                   pre_write, last_run, pool_vars>>

\* write_postgresql_conf(final_config, pg_path): shutil.copy
write_backup ==
    /\ pc = "formatted"
    /\ pre_write' = conf
    /\ base' = backup_copy(conf, base, TRUE)
    /\ pc' = "backed_up"
    /\ UNCHANGED <<state, result, submitted, key, value, text, parsed, str_config, conf,
                   existing_config, new_config, enable, original, runs, last_run, pool_vars>>

\* open(conf_path, "w")
write_open ==
    /\ pc = "backed_up"
    /\ conf' = opened(conf)
    /\ pc' = "opened"
    /\ UNCHANGED <<state, result, submitted, key, value, text, parsed, str_config, base,
                   existing_config, new_config, enable, original, pre_write, runs,
                   last_run, pool_vars>>

\* open raises OSError: build_config reports it and exits with status 1
write_open_fails ==
    /\ pc = "backed_up"
    /\ pc' = "write_failed"
    /\ UNCHANGED <<state, result, submitted, key, value, text, parsed, str_config, conf, base,
                   existing_config, new_config, enable, original, pre_write, runs,
                   last_run, pool_vars>>

\* the header and every line are written and the file is closed
write_content ==
    /\ pc = "opened"
    /\ conf' = File(written_lines(str_config))
    /\ pc' = "written"
    /\ UNCHANGED <<state, result, submitted, key, value, text, parsed, str_config, base,
                   existing_config, new_config, enable, original, pre_write, runs,
                   last_run, pool_vars>>

\* a write raises part-way: build_config reports it and exits with status 1
write_content_fails ==
    /\ pc = "opened"
    /\ \E n \in 0..MaxPartial :
           /\ n < Len(written_lines(str_config))
           /\ conf' = File(SubSeq(written_lines(str_config), 1, n))
    /\ pc' = "write_failed"
    /\ UNCHANGED <<state, result, submitted, key, value, text, parsed, str_config, base,
                   existing_config, new_config, enable, original, pre_write, runs,
                   last_run, pool_vars>>

\* the process ends (status 0 after a complete write, non-zero otherwise);
\* the directory stays as it is for the next run
build_exit ==
    /\ pc \in {"written", "write_failed", "crashed"}
    /\ pc' = "idle"
    /\ state' = InitialState
    /\ str_config' = EmptyMap
    /\ existing_config' = EmptyMap
    /\ new_config' = EmptyMap
    /\ enable' = FALSE
    /\ pre_write' = NoFile
    /\ last_run' = IF pc = "written" THEN Some(<<state, enable>>) ELSE None
    /\ UNCHANGED <<result, submitted, key, value, text, parsed, conf, base,
                   original, runs, pool_vars>>

NextBuild ==
    \/ build_config
    \/ write_backup
    \/ write_open
    \/ write_open_fails
    \/ write_content
    \/ write_content_fails
    \/ build_exit

SpecBuild == InitBuild /\ [][NextBuild]_vars

(***************************************************************************)
(* autopgpool: MainConfig, the three writers and the generate command      *)
(***************************************************************************)
PyList(items) == [t |-> "list", v |-> items]

\* MainConfig.users entries: User{username, password, grants}
UserNames == <<"alice", "bob", "carol">>
GrantLists == {<<>>, <<"main">>, <<"main", "replica">>}
PoolUser(name, grants) == [username |-> name, password |-> "secret", grants |-> grants]
PoolUserLists ==
    {us \in SeqsUpTo({PoolUser(UserNames[i], g) : i \in 1..3, g \in GrantLists},
                     MaxUsers) :
        \A i, j \in 1..Len(us) : i # j => us[i].username # us[j].username}

\* MainConfig.pools: name -> Pool{remote, pool_mode}
PoolNames == <<"main", "replica">>
Pool(host) ==
    [remote |-> [host |-> host, port |-> 5432, database |-> "app",
                 username |-> "app_user", password |-> "app_pass"],
     pool_mode |-> "transaction"]
Pools == [main |-> Pool("db-main"), replica |-> Pool("db-replica")]

\* PgbouncerConfig.admin_users / stats_users: list[str] | None
ListedUsers ==
    {None, Some(<<>>), Some(<<"alice">>), Some(<<"bob">>), Some(<<"ghost">>)}
AuthTypes == {"md5", "plain", "scram-sha-256"}

\* PgbouncerConfig.passthrough_kwargs: free-form keys, in mapping order
PassthroughKwargs ==
    {<<>>,
     <<KV("application_name", Str("pgbouncer"))>>,
     <<KV("auth_type", Str("trust")), KV("auth_file", Str("/etc/users.txt")),
       KV("auth_hba_file", Str("/etc/hba.conf"))>>}

MainConfigs ==
    {[users |-> us, pools |-> Pools,
      pgbouncer |-> [auth_type |-> a, admin_users |-> ad, stats_users |-> st,
                     passthrough_kwargs |-> kw]] :
        us \in PoolUserLists, a \in AuthTypes, ad \in ListedUsers,
        st \in ListedUsers, kw \in PassthroughKwargs}

RECURSIVE AllIn(_, _)
\* the loop of the validator: TRUE when no listed user is missing
AllIn(listed, valid_users) ==
    IF listed = <<>> THEN TRUE
    ELSE IF Head(listed) \notin valid_users THEN FALSE
    ELSE AllIn(Tail(listed), valid_users)

\* "xs or []"
OrEmpty(opt) == IF opt = None THEN <<>> ELSE opt[1]

\* TRUE when the validator returns self, FALSE when it raises ValueError
validate_pgbouncer_users_mut(config) ==
    LET valid_users == {config.users[i].username : i \in 1..Len(config.users)}
    IN AllIn(OrEmpty(config.pgbouncer.admin_users), valid_users)

validate_pgbouncer_users(config) ==
    LET valid_users == {config.users[i].username : i \in 1..Len(config.users)}
    IN /\ AllIn(OrEmpty(config.pgbouncer.admin_users), valid_users)
       /\ AllIn(OrEmpty(config.pgbouncer.stats_users), valid_users)

\* hashlib.md5((password + username).encode()).hexdigest(), kept symbolic
Md5Hex(password, username) ==
    CASE username = "alice" -> "md5hex(secretalice)"
      [] username = "bob" -> "md5hex(secretbob)"
      [] username = "carol" -> "md5hex(secretcarol)"

\* write_userlist_file: the lines written, and whether the loop raised
\* NotImplementedError (the file is open, hence created or truncated, by then)
write_userlist_file(users, encrypt) ==
    LET raised == encrypt = "scram-sha-256" /\ users # <<>>
        password(u) ==
            IF encrypt = "md5" THEN <<"md5", Md5Hex(u.password, u.username)>>
            ELSE <<u.password>>
    IN [raised |-> raised,
        lines |-> IF raised THEN <<>>
                  ELSE [i \in 1..Len(users) |->
                           <<"\"", users[i].username, "\"", " ", "\"">>
                               \o password(users[i]) \o <<"\"">>]]

\* one HBA line: its tab-separated fields
HbaLine(type, database, user, address, method) ==
    <<type, database, user, address, method>>

HbaGrant_mut(username, pool) ==
    <<HbaLine("local", pool, username, "", "md5"),
      HbaLine("host", pool, username, "0.0.0.0/0", "md5"),
      HbaLine("host", "all", username, "::0/0", "md5"),
      HbaLine("host", "all", username, "!0.0.0.0/0", "!md5"),
      HbaLine("host", "all", username, "!::0/0", "!md5")>>

HbaGrant(username, pool) ==
    <<HbaLine("local", pool, username, "", "md5"),
      HbaLine("host", pool, username, "0.0.0.0/0", "md5"),
      HbaLine("host", pool, username, "::0/0", "md5"),
      HbaLine("host", "all", username, "!0.0.0.0/0", "!md5"),
      HbaLine("host", "all", username, "!::0/0", "!md5")>>

RECURSIVE HbaGrants(_, _)
HbaGrants(username, grants) ==
    IF grants = <<>> THEN <<>>
    ELSE HbaGrant(username, Head(grants)) \o HbaGrants(username, Tail(grants))

RECURSIVE HbaUsers(_)
HbaUsers(users) ==
    IF users = <<>> THEN <<>>
    ELSE HbaGrants(Head(users).username, Head(users).grants) \o HbaUsers(Tail(users))

write_hba_file(users) ==
    <<HbaLine("# TYPE", "DATABASE", "USER", "ADDRESS", "METHOD")>> \o HbaUsers(users)

RECURSIVE JoinItems(_)
\* ", ".join of quoted strings
JoinItems(items) ==
    IF items = <<>> THEN <<>>
    ELSE IF Len(items) = 1 THEN <<"\"", Head(items), "\"">>
    ELSE <<"\"", Head(items), "\"", ",", " ">> \o JoinItems(Tail(items))

format_ini_value(x) ==
    CASE x.t = "bool" -> IF x.v THEN <<"1">> ELSE <<"0">>
      [] x.t = "int" -> py_str(x.v)
      [] x.t = "float" -> py_str(x.whole) \o <<".">> \o py_str(x.frac)
      [] x.t = "str" -> <<"\"">> \o x.v \o <<"\"">>
      [] x.t = "list" -> JoinItems(x.v)
      [] x.t = "none" -> <<>>

OptList(opt) == IF opt = None THEN PyNone ELSE PyList(opt[1])

\* PgbouncerConfig.model_dump(exclude={"passthrough_kwargs"}), in field order
model_dump(pgbouncer) ==
    <<KV("listen_addr", Str("0.0.0.0")),
      KV("listen_port", PyInt(6432)),
      KV("auth_type", Str(pgbouncer.auth_type)),
      KV("pool_mode", Str("transaction")),
      KV("max_client_conn", PyInt(100)),
      KV("default_pool_size", PyInt(10)),
      KV("ignore_startup_parameters", PyList(<<"extra_float_digits">>)),
      KV("admin_users", OptList(pgbouncer.admin_users)),
      KV("stats_users", OptList(pgbouncer.stats_users)),
      KV("idle_transaction_timeout", PyInt(60)),
      KV("max_prepared_statements", PyInt(10))>>

RECURSIVE Updated(_, _)
\* {**items, **updates}: a key already present keeps its position and takes
\* the new value, a new key is appended
Updated(items, updates) ==
    IF updates = <<>> THEN items
    ELSE LET u == Head(updates)
             present == \E i \in 1..Len(items) : items[i].key = u.key
             next == IF present
                     THEN [i \in 1..Len(items) |->
                              IF items[i].key = u.key THEN u ELSE items[i]]
                     ELSE Append(items, u)
         IN Updated(next, Tail(updates))

\* str(output_path / name), relative to the output directory
UserlistPath == "userlist.txt"
HbaPath == "pgbouncer_hba.conf"

\* the [pgbouncer] section: the dumped fields, then the passthrough keys, then
\* the forced auth_type and auth_file
PgbouncerItems(pgbouncer) ==
    Updated(Updated(model_dump(pgbouncer), pgbouncer.passthrough_kwargs),
            <<KV("auth_type", Str("hba")), KV("auth_file", Str(HbaPath))>>)

\* the [databases] section: pool name -> connection string
DatabaseItems(pools) ==
    [i \in 1..Len(PoolNames) |->
        LET pool == pools[PoolNames[i]]
        IN KV(PoolNames[i],
              PyStr(<<"host=", pool.remote.host, " port=", "5432",
                      " dbname=", pool.remote.database,
                      " user=", pool.remote.username,
                      " password=", pool.remote.password,
                      " pool_mode=", pool.pool_mode>>))]

\* the mapping handed to write_ini_file by generate_pgbouncer_config
pgbouncer_config(config) ==
    <<[section |-> "pgbouncer", items |-> PgbouncerItems(config.pgbouncer)],
      [section |-> "databases", items |-> DatabaseItems(config.pools)]>>

\* "section_comments and section in section_comments"; None is the empty map
NoComments == [section \in {} |-> <<>>]

IniSection_mut(section, items, section_comments) ==
    LET kept == SelectSeq(items, LAMBDA kv : kv.value.t # "none")
    IN (IF section \in DOMAIN section_comments
        THEN <<<<"#", " ", section_comments[section]>>>> ELSE <<>>)
           \o <<<<"[", section, "]">>>>
           \o [i \in 1..Len(kept) |->
                  <<kept[i].key, " ", "=", " ">> \o format_ini_value(kept[i].value)]
           \o <<<<>>>>

\* one section of write_ini_file: the comment if there is one, the header, the
\* items whose formatted value is not empty, a blank line
IniSection(section, items, section_comments) ==
    LET kept == SelectSeq(items, LAMBDA kv : format_ini_value(kv.value) # <<>>)
    IN (IF section \in DOMAIN section_comments
        THEN <<<<"#", " ", section_comments[section]>>>> ELSE <<>>)
           \o <<<<"[", section, "]">>>>
           \o [i \in 1..Len(kept) |->
                  <<kept[i].key, " ", "=", " ">> \o format_ini_value(kept[i].value)]
           \o <<<<>>>>

RECURSIVE write_ini_file(_, _)
write_ini_file(config, section_comments) ==
    IF config = <<>> THEN <<>>
    ELSE IniSection(Head(config).section, Head(config).items, section_comments)
             \o write_ini_file(Tail(config), section_comments)

\* the output directory: its three files
OutDir(userlist, hba, ini) == [userlist |-> userlist, hba |-> hba, ini |-> ini]
\* a file left by an earlier generation
OldFile == File(<<<<"# earlier generation">>>>)

InitPool ==
    /\ state = InitialState
    /\ result = Returned("__init__", None)
    /\ submitted = NoneSubmitted
    /\ pc = "start"
    /\ key = <<>>
    /\ value = 0
    /\ text = <<>>
    /\ parsed = None
    /\ str_config = EmptyMap
    /\ conf = NoFile
    /\ base = NoFile
    /\ existing_config = EmptyMap
    /\ NoBuild
    /\ pool_config \in MainConfigs
    /\ outdir \in {OutDir(NoFile, NoFile, NoFile), OutDir(OldFile, OldFile, OldFile)}
    /\ exit_code = None
    /\ args = None

PoolStep(next_pc, next_outdir, next_exit) ==
    /\ pc' = next_pc
    /\ outdir' = next_outdir
    /\ exit_code' = next_exit
    /\ UNCHANGED <<state, result, submitted, key, value, text, parsed, str_config, conf, base,
                   existing_config, build_vars, pool_config, args>>

\* generate: load_toml_config; a missing or malformed file exits with status 1
load_toml_config ==
    /\ pc = "start"
    /\ \E readable \in BOOLEAN :
           IF readable THEN PoolStep("loaded", outdir, None)
           ELSE PoolStep("no_config", outdir, Some(1))

\* generate: MainConfig.model_validate; ValueError is caught, status 1
model_validate ==
    /\ pc = "loaded"
    /\ IF validate_pgbouncer_users(pool_config)
       THEN PoolStep("validated", outdir, None)
       ELSE PoolStep("invalid", outdir, Some(1))

\* generate_pgbouncer_config: userlist.txt; NotImplementedError is caught by
\* generate, status 1
call_write_userlist_file ==
    /\ pc = "validated"
    /\ LET written == write_userlist_file(pool_config.users,
                                          pool_config.pgbouncer.auth_type)
           next_outdir == OutDir(File(written.lines), outdir.hba, outdir.ini)
       IN IF written.raised THEN PoolStep("failed", next_outdir, Some(1))
          ELSE PoolStep("userlist_written", next_outdir, None)

\* generate_pgbouncer_config: pgbouncer_hba.conf
call_write_hba_file ==
    /\ pc = "userlist_written"
    /\ PoolStep("hba_written",
                OutDir(outdir.userlist, File(write_hba_file(pool_config.users)),
                       outdir.ini),
                None)

\* generate_pgbouncer_config: pgbouncer.ini, then generate returns
call_write_ini_file ==
    /\ pc = "hba_written"
    /\ PoolStep("done",
                OutDir(outdir.userlist, outdir.hba, File(write_ini_file(pgbouncer_config(pool_config),
                                                 NoComments))),
                Some(0))

NextPool ==
    \/ load_toml_config
    \/ model_validate
    \/ call_write_userlist_file
    \/ call_write_hba_file
    \/ call_write_ini_file

SpecPool == InitPool /\ [][NextPool]_vars

(***************************************************************************)
(* write_ini_file called directly on arbitrary sections                    *)
(***************************************************************************)
IniKeys == <<"key1", "key2", "key3", "key4">>
IniSections == <<"section1", "section2">>
IniValues ==
    {PyNone, PyBool(TRUE), PyInt(123), PyFloat(1, 5), Str("value1"), PyStr(<<>>),
     PyList(<<>>), PyList(<<"a", "b">>)}

\* the key -> value mappings of up to n keys, in mapping order
IniItems(n) ==
    UNION {{[i \in 1..len |-> KV(IniKeys[i], values[i])] :
               values \in [1..len -> IniValues]} : len \in 0..n}

\* one section, or a first section followed by a short second one
IniConfigs ==
    {<<[section |-> IniSections[1], items |-> items]>> : items \in IniItems(MaxItems)}
    \cup {<<[section |-> IniSections[1], items |-> items],
             [section |-> IniSections[2], items |-> more]>> :
              items \in IniItems(MaxItems), more \in IniItems(1)}

IniComments ==
    {NoComments,
     [section \in {IniSections[1]} |-> "This is section 1"],
     [section \in {IniSections[2]} |-> "This is section 2"]}

InitIni ==
    /\ state = InitialState
    /\ result = Returned("__init__", None)
    /\ submitted = NoneSubmitted
    /\ pc = "ini_args"
    /\ key = <<>>
    /\ value = 0
    /\ text = <<>>
    /\ parsed = None
    /\ str_config = EmptyMap
    /\ conf = NoFile
    /\ base = NoFile
    /\ existing_config = EmptyMap
    /\ NoBuild
    /\ pool_config = None
    /\ outdir = OutDir(NoFile, NoFile, NoFile)
    /\ exit_code = None
    /\ args \in {[config |-> config, section_comments |-> comments] :
                    config \in IniConfigs, comments \in IniComments}

\* write_ini_file(config, filepath, section_comments)
ini_write ==
    /\ pc = "ini_args"
    /\ PoolStep("ini_written",
                OutDir(outdir.userlist, outdir.hba,
                       File(write_ini_file(args.config, args.section_comments))),
                None)

NextIni == ini_write

SpecIni == InitIni /\ [][NextIni]_vars

(***************************************************************************)
(* swap_env called on a parsed TOML payload                                *)
(***************************************************************************)
PyDict(entries) == [t |-> "dict", v |-> entries]

\* a string is the sequence of its parts; "$DB_USER" is <<"$", "DB_USER">>
EnvLeaves ==
    {PyStr(<<"$", "DB_USER">>), PyStr(<<"$", "DB_PASS">>), PyStr(<<"localhost">>),
     PyStr(<<"cost", "$", "5">>), PyInt(5432)}

\* dict keys, one of them starting with '$'
EnvKeys == <<"username", "$DB_USER", "password">>

\* lists and dicts of up to MaxWidth leaves
FlatObjs ==
    EnvLeaves
    \cup UNION {{PyList(items) : items \in [1..len -> EnvLeaves]} : len \in 0..MaxWidth}
    \cup UNION {{PyDict([i \in 1..len |-> KV(EnvKeys[i], values[i])]) :
                    values \in [1..len -> EnvLeaves]} : len \in 0..MaxWidth}

\* lists and dicts that hold a list or a dict
NestedObjs ==
    {PyList(<<leaf, flat>>) : leaf \in EnvLeaves, flat \in FlatObjs}
    \cup {PyDict(<<KV("remote", flat), KV("port", leaf)>>) :
              leaf \in EnvLeaves, flat \in FlatObjs}

\* a list of tables, as in [[users]]
DeepObjs == {PyList(<<PyDict(<<KV("pools", nested)>>)>>) : nested \in NestedObjs}

TomlPayloads == FlatObjs \cup NestedObjs \cup DeepObjs

\* os.environ: the set variables; one value is empty, one starts with '$'
Environs ==
    {[name \in {} |-> <<>>],
     [name \in {<<"DB_USER">>} |-> <<"admin">>],
     [name \in {<<"DB_USER">>, <<"DB_PASS">>} |->
         IF name = <<"DB_USER">> THEN <<>> ELSE <<"$", "DB_USER">>]}

\* os.getenv(name): None when the variable is not set
getenv(name, environ) ==
    IF name \in DOMAIN environ THEN Some(environ[name]) ELSE None

\* the outcome of swap_env: EnvironmentError raised, or the value returned
EnvRaised == [raised |-> TRUE, value |-> PyNone]
EnvReturned(x) == [raised |-> FALSE, value |-> x]

RECURSIVE swap_env_mut(_, _)
swap_env_mut(obj, environ) ==
    CASE obj.t = "dict" ->
             LET swapped == [i \in 1..Len(obj.v) |-> swap_env_mut(obj.v[i].value, environ)]
             IN IF \E i \in 1..Len(obj.v) : swapped[i].raised THEN EnvRaised
                ELSE EnvReturned(PyDict([i \in 1..Len(obj.v) |->
                                            KV(obj.v[i].key, swapped[i].value)]))
      [] obj.t = "list" ->
             LET swapped == [i \in 1..Len(obj.v) |-> swap_env_mut(obj.v[i], environ)]
             IN IF \E i \in 1..Len(obj.v) : swapped[i].raised THEN EnvRaised
                ELSE EnvReturned(PyList([i \in 1..Len(obj.v) |-> swapped[i].value]))
      [] obj.t = "str" ->
             IF obj.v # <<>> /\ Head(obj.v) = "$"
             THEN LET env_value == getenv(Tail(obj.v), environ)
                  IN IF env_value = None THEN EnvReturned(obj)
                     ELSE EnvReturned(PyStr(env_value[1]))
             ELSE EnvReturned(obj)
      [] OTHER -> EnvReturned(obj)

RECURSIVE swap_env(_, _)
swap_env(obj, environ) ==
    CASE obj.t = "dict" ->
             LET swapped == [i \in 1..Len(obj.v) |-> swap_env(obj.v[i].value, environ)]
             IN IF \E i \in 1..Len(obj.v) : swapped[i].raised THEN EnvRaised
                ELSE EnvReturned(PyDict([i \in 1..Len(obj.v) |->
                                            KV(obj.v[i].key, swapped[i].value)]))
      [] obj.t = "list" ->
             LET swapped == [i \in 1..Len(obj.v) |-> swap_env(obj.v[i], environ)]
             IN IF \E i \in 1..Len(obj.v) : swapped[i].raised THEN EnvRaised
                ELSE EnvReturned(PyList([i \in 1..Len(obj.v) |-> swapped[i].value]))
      [] obj.t = "str" ->
             IF obj.v # <<>> /\ Head(obj.v) = "$"
             THEN LET env_value == getenv(Tail(obj.v), environ)
                  IN IF env_value = None THEN EnvRaised
                     ELSE EnvReturned(PyStr(env_value[1]))
             ELSE EnvReturned(obj)
      [] OTHER -> EnvReturned(obj)

InitEnv ==
    /\ state = InitialState
    /\ result = Returned("__init__", None)
    /\ submitted = NoneSubmitted
    /\ pc = "env_args"
    /\ key = <<>>
    /\ value = 0
    /\ text = <<>>
    /\ parsed = None
    /\ str_config = EmptyMap
    /\ conf = NoFile
    /\ base = NoFile
    /\ existing_config = EmptyMap
    /\ NoBuild
    /\ pool_config = None
    /\ outdir = None
    /\ exit_code = None
    /\ args \in {[obj |-> obj, environ |-> environ] :
                    obj \in TomlPayloads, environ \in Environs}

\* swap_env(obj) under the environment of the process
call_swap_env ==
    /\ pc = "env_args"
    /\ pc' = "env_done"
    /\ result' = Returned("swap_env", swap_env(args.obj, args.environ))
    /\ UNCHANGED <<state, submitted, key, value, text, parsed, str_config, conf,
                   base, existing_config, build_vars, pool_vars>>

NextEnv == call_swap_env

SpecEnv == InitEnv /\ [][NextEnv]_vars

(***************************************************************************)
(* Properties of the tuning engine (specification Spec)                    *)
(***************************************************************************)
Min(a, b) == IF a < b THEN a ELSE b
Max(a, b) == IF a > b THEN a ELSE b
\* floor(a / b) for b # 0
FloorDiv(a, b) == IF b > 0 THEN a \div b ELSE (-a) \div (-b)
\* ceil(n / 2) for n >= 0, by its defining inequalities
CeilHalf(n) == CHOOSE k \in 0..n : 2 * k >= n /\ 2 * (k - 1) < n

WorkloadConnections(d) ==
    CASE d = "web" -> 200
      [] d = "oltp" -> 300
      [] d = "dw" -> 40
      [] d = "desktop" -> 20
      [] d = "mixed" -> 100

\* C1 as stated: get_max_connections returns exactly connection_num whenever
\* connection_num is present, whatever integer it holds, and the workload
\* table value otherwise.
C1_AsStated ==
    result.op = "get_max_connections" =>
        result.value = IF state.connection_num # None
                       THEN state.connection_num[1]
                       ELSE WorkloadConnections(state.db_type)

\* C1 amended: get_max_connections returns connection_num whenever it is
\* present and non-zero, regardless of workload; when connection_num is
\* absent or 0 it returns the workload table value.
C1_MaxConnections ==
    result.op = "get_max_connections" =>
        result.value = IF state.connection_num # None /\ state.connection_num[1] # 0
                       THEN state.connection_num[1]
                       ELSE WorkloadConnections(state.db_type)

C1_Witness ==
    /\ result.op = "get_max_connections"
    /\ state.db_type = "dw"
    /\ state.connection_num = Some(45)
    /\ result.value = 45

\* C2: get_parallel_settings returns no settings whenever cpu_num is absent
\* or below 4, for every workload and every db_version.
C2_NoParallelBelowFour ==
    (/\ result.op = "get_parallel_settings"
     /\ (state.cpu_num = None \/ state.cpu_num[1] < 4))
        => result.value = <<>>

C2_Witness ==
    /\ result.op = "get_parallel_settings"
    /\ state.cpu_num = Some(3)
    /\ state.db_type = "dw"
    /\ state.db_version = V(11)
    /\ result.value = <<>>

C3_Expected(s) ==
    LET cpu == s.cpu_num[1]
    IN {KV("max_worker_processes", cpu),
        KV("max_parallel_workers_per_gather",
           IF s.db_type = "dw" THEN CeilHalf(cpu) ELSE Min(CeilHalf(cpu), 4))}
       \cup (IF s.db_version >= V(10)
             THEN {KV("max_parallel_workers", cpu)} ELSE {})
       \cup (IF s.db_version >= V(11)
             THEN {KV("max_parallel_maintenance_workers", Min(CeilHalf(cpu), 4))}
             ELSE {})

\* C3: for cpu_num >= 4 get_parallel_settings emits exactly
\* max_worker_processes = cpu_num, max_parallel_workers_per_gather =
\* ceil(cpu_num/2) (capped at 4 unless the workload is dw),
\* max_parallel_workers = cpu_num iff db_version >= 10 and
\* max_parallel_maintenance_workers = min(ceil(cpu_num/2), 4) iff
\* db_version >= 11, and no other key.
C3_ParallelSettings ==
    (/\ result.op = "get_parallel_settings"
     /\ state.cpu_num # None
     /\ state.cpu_num[1] >= 4)
        => /\ {result.value[i] : i \in DOMAIN result.value} = C3_Expected(state)
           /\ Len(result.value) = Cardinality(C3_Expected(state))

C3_Witness ==
    /\ result.op = "get_parallel_settings"
    /\ state.cpu_num = Some(31)
    /\ state.db_type = "dw"
    /\ state.db_version = V(11)
    /\ Len(result.value) = 4
    /\ result.value[2] = KV("max_parallel_workers_per_gather", 16)
    /\ result.value[4] = KV("max_parallel_maintenance_workers", 4)

C4_Workers(s) ==
    LET ps == get_parallel_settings(s)
        emitted == {ps[i].value : i \in {j \in DOMAIN ps :
                        ps[j].key = "max_parallel_workers_per_gather"}}
    IN IF emitted # {} /\ (\A w \in emitted : w > 0)
       THEN CHOOSE w \in emitted : TRUE ELSE 1

C4_ScaleDivisor(d) ==
    CASE d \in {"web", "oltp"} -> 1
      [] d \in {"dw", "mixed"} -> 2
      [] d = "desktop" -> 6

\* C4: get_work_mem is absent when total_memory is absent; otherwise it is
\* max(64, floor(s * (memory_kb - shared_buffers) / (3 * max_connections) / w))
\* with w the emitted max_parallel_workers_per_gather (1 if none) and s the
\* workload scale 1, 1/2 or 1/6; it is never below 64.
C4_WorkMem ==
    result.op = "get_work_mem" =>
        IF state.total_memory = None THEN result.value = None
        ELSE LET memory_kb == state.total_memory[1]
                                  * KB_PER_UNIT[state.total_memory_unit]
                 shared_buffers == get_shared_buffers(state)[1]
                 denominator == 3 * get_max_connections(state) * C4_Workers(state)
                                    * C4_ScaleDivisor(state.db_type)
             IN /\ result.value =
                       Some(Max(64, FloorDiv(memory_kb - shared_buffers, denominator)))
                /\ result.value[1] >= 64

C4_Witness ==
    /\ result.op = "get_work_mem"
    /\ state.db_type = "dw"
    /\ state.cpu_num = Some(MaxCpu)
    /\ state.total_memory = Some(MaxMemGB)
    /\ state.connection_num = Some(MaxConn)
    /\ result.value # None
    /\ result.value[1] > 64

\* C5: get_wal_buffers is absent when shared_buffers is absent; otherwise it
\* is floor(3 * shared_buffers / 100) capped at 16384, snapped up to 16384
\* when strictly between 14336 and 16384, and raised to 32 when below 32; so
\* it lies in [32, 16384] and never strictly between 14336 and 16384.
C5_WalBuffers ==
    result.op = "get_wal_buffers" =>
        IF get_shared_buffers(state) = None THEN result.value = None
        ELSE LET capped == Min((3 * get_shared_buffers(state)[1]) \div 100, 16384)
                 snapped == IF 14336 < capped /\ capped < 16384 THEN 16384 ELSE capped
             IN /\ result.value = Some(Max(snapped, 32))
                /\ result.value[1] >= 32
                /\ result.value[1] <= 16384
                /\ ~(14336 < result.value[1] /\ result.value[1] < 16384)

\* 3% of shared_buffers is 14999 KB here, which the code snaps to 16384
C5_Witness ==
    /\ result.op = "get_wal_buffers"
    /\ get_shared_buffers(state) = Some(499968)
    /\ result.value = Some(16384)

\* C6: with memory present, get_maintenance_work_mem is
\* min(floor(memory_kb / d), 2097152), d = 8 for dw and 16 otherwise, except
\* that on windows a result of exactly 2097152 becomes 2096128; it never
\* exceeds 2097152 and on windows it is strictly below 2097152.
C6_MaintenanceWorkMem ==
    (result.op = "get_maintenance_work_mem" /\ state.total_memory # None) =>
        LET memory_kb == state.total_memory[1] * KB_PER_UNIT[state.total_memory_unit]
            d == IF state.db_type = "dw" THEN 8 ELSE 16
            m == Min(memory_kb \div d, 2097152)
        IN /\ result.value =
                  Some(IF state.os_type = "windows" /\ m = 2097152 THEN 2096128 ELSE m)
           /\ result.value[1] <= 2097152
           /\ state.os_type = "windows" => result.value[1] < 2097152

C6_Witness ==
    /\ result.op = "get_maintenance_work_mem"
    /\ state.os_type = "windows"
    /\ state.total_memory = Some(32)
    /\ state.total_memory_unit = "GB"
    /\ result.value = Some(2096128)

\* C7: get_shared_buffers is absent when total_memory is absent; otherwise
\* it is floor(memory_kb / 4) (floor(memory_kb / 16) for desktop), capped at
\* 524288 exactly when db_version < 10 and os_type = windows.
C7_SharedBuffers ==
    result.op = "get_shared_buffers" =>
        IF state.total_memory = None THEN result.value = None
        ELSE LET memory_kb == state.total_memory[1]
                                  * KB_PER_UNIT[state.total_memory_unit]
                 q == memory_kb \div (IF state.db_type = "desktop" THEN 16 ELSE 4)
             IN result.value =
                    Some(IF state.db_version < V(10) /\ state.os_type = "windows"
                         THEN Min(q, 524288) ELSE q)

\* windows with db_version 10: a quarter of 16 GB is returned uncapped
C7_Witness ==
    /\ result.op = "get_shared_buffers"
    /\ state.os_type = "windows"
    /\ state.db_version = V(10)
    /\ state.total_memory = Some(16)
    /\ state.total_memory_unit = "GB"
    /\ result.value = Some(4194304)

\* C8: get_wal_level emits wal_level = "minimal" and max_wal_senders = "0"
\* exactly when db_type is desktop, and nothing for every other workload.
C8_WalLevel ==
    result.op = "get_wal_level" =>
        /\ state.db_type = "desktop" =>
               /\ Len(result.value) = 2
               /\ {result.value[i] : i \in 1..2} =
                      {KV("wal_level", "minimal"), KV("max_wal_senders", "0")}
        /\ state.db_type \in {"web", "oltp", "dw", "mixed"} => result.value = <<>>

C8_Witness ==
    /\ result.op = "get_wal_level"
    /\ state.db_type = "desktop"
    /\ Len(result.value) = 2

(***************************************************************************)
(* Properties of the formatter (specification SpecFmt)                     *)
(***************************************************************************)
\* C9: for every non-negative kilobyte count v, format_kb_value(v) is
\* "<v/1048576>GB" if v > 0 and 1048576 divides v, else "<v/1024>MB" if
\* v > 0 and 1024 divides v, else "<v>kB"; format_kb_value(0) is "0kB".
C9_FormatKb ==
    (pc # "start" /\ value >= 0) =>
        /\ (value > 0 /\ value % 1048576 = 0)
               => text = py_str(value \div 1048576) \o <<"G", "B">>
        /\ (value > 0 /\ value % 1048576 # 0 /\ value % 1024 = 0)
               => text = py_str(value \div 1024) \o <<"M", "B">>
        /\ (value = 0 \/ value % 1024 # 0) => text = py_str(value) \o <<"k", "B">>
        /\ value = 0 => text = <<"0", "k", "B">>

C9_Witness ==
    /\ pc = "formatted"
    /\ value = 5242880
    /\ text = <<"5", "G", "B">>

LineMeaning(line) ==
    CASE line = Lines.shared128 -> Some(<<Key("shared_buffers"), PyInt(128 * 1024)>>)
      [] line = Lines.shared256 -> Some(<<Key("shared_buffers"), PyInt(256 * 1024)>>)
      [] line = Lines.conn -> Some(<<Key("max_connections"), PyInt(100)>>)
      [] line = Lines.ssl -> Some(<<Key("ssl"), PyStr(<<"o", "n">>)>>)
      [] OTHER -> None

\* the mapping a file's lines stand for: per key, the last line that defines it
MeaningOf(lines) ==
    LET defs(k) == {i \in 1..Len(lines) :
                       LineMeaning(lines[i]) # None /\ LineMeaning(lines[i])[1][1] = k}
        ks == {LineMeaning(lines[i])[1][1] :
                  i \in {j \in 1..Len(lines) : LineMeaning(lines[j]) # None}}
    IN [k \in ks |->
           LineMeaning(lines[CHOOSE i \in defs(k) : \A j \in defs(k) : j <= i])[1][2]]

\* C11: read_postgresql_conf returns the mapping parsed from postgresql.conf.base
\* whenever that file exists (postgresql.conf is then not used), otherwise the
\* mapping parsed from postgresql.conf if it exists, otherwise the empty mapping.
C11_ReadPrefersBase ==
    pc = "dir_read" =>
        existing_config =
            IF base.exists THEN MeaningOf(base.lines)
            ELSE IF conf.exists THEN MeaningOf(conf.lines)
            ELSE EmptyMap

\* both files exist with different meanings and the backup's was returned
C11_Witness ==
    /\ pc = "dir_read"
    /\ base.exists /\ conf.exists
    /\ MeaningOf(base.lines) # MeaningOf(conf.lines)
    /\ existing_config = MeaningOf(base.lines)
    /\ existing_config # EmptyMap

\* C12: read_postgresql_conf never aborts on a malformed line: blank lines,
\* comments, lines without '=' and lines whose value cannot be parsed add no
\* entry, and every well-formed line before or after one is returned, a later
\* line for a key replacing an earlier one.
C12_MalformedLinesSkipped ==
    (pc = "dir_read" /\ ~base.exists /\ conf.exists) =>
        /\ \A i \in 1..Len(conf.lines) :
               LineMeaning(conf.lines[i]) # None =>
                   LineMeaning(conf.lines[i])[1][1] \in DOMAIN existing_config
        /\ \A k \in DOMAIN existing_config :
               \E i \in 1..Len(conf.lines) :
                   /\ LineMeaning(conf.lines[i]) = Some(<<k, existing_config[k]>>)
                   /\ \A j \in (i + 1)..Len(conf.lines) :
                          LineMeaning(conf.lines[j]) = None
                              \/ LineMeaning(conf.lines[j])[1][1] # k

\* a well-formed line, an unparseable one, then a replacement of the first
C12_Witness ==
    /\ pc = "dir_read"
    /\ ~base.exists /\ conf.exists
    /\ conf.lines = <<Lines.shared128, Lines.bad_size, Lines.shared256>>
    /\ existing_config = [k \in {Key("shared_buffers")} |-> PyInt(256 * 1024)]

(***************************************************************************)
(* Properties of build-config and of the backup file                       *)
(***************************************************************************)
\* the keys and values of the "key = value" lines below a file's header
WrittenKeys(f) == {Key(f.lines[i][1]) : i \in 3..Len(f.lines)}
WrittenValue(f, k) ==
    LET line == f.lines[CHOOSE i \in 3..Len(f.lines) : Key(f.lines[i][1]) = k]
    IN SubSeq(line, 5, Len(line))
FormattedAs(k, v) == format_postgres_values([x \in {k} |-> v])[k]

\* C13: with backup enabled, after each write made while postgresql.conf
\* existed the single backup file holds exactly what postgresql.conf held
\* immediately before that call; an earlier backup is overwritten.
C13_BackupIsPriorFile ==
    (pc = "written" /\ pre_write.exists) => base = pre_write

\* a second write replaced the backup of the first one
C13_Witness ==
    /\ pc = "written"
    /\ runs >= 2
    /\ original.exists
    /\ pre_write.exists
    /\ base = pre_write
    /\ base # original

\* C14: in build-config every key of the existing mapping is written with the
\* existing value (re-formatted) whatever was computed for it, a key only in
\* the computed mapping is written with the computed value, and the written
\* key set is the union of both.
C14_ExistingWins ==
    pc = "written" =>
        /\ WrittenKeys(conf) = DOMAIN new_config \cup DOMAIN existing_config
        /\ \A k \in DOMAIN existing_config :
               WrittenValue(conf, k) = FormattedAs(k, existing_config[k])
        /\ \A k \in DOMAIN new_config \ DOMAIN existing_config :
               WrittenValue(conf, k) = FormattedAs(k, new_config[k])

\* an existing value that differs from the computed one, and a computed-only key
C14_Witness ==
    /\ pc = "written"
    /\ \E k \in DOMAIN existing_config \cap DOMAIN new_config :
           /\ existing_config[k] # new_config[k]
           /\ WrittenValue(conf, k) = FormattedAs(k, existing_config[k])
           /\ WrittenValue(conf, k) # FormattedAs(k, new_config[k])
    /\ DOMAIN new_config \ DOMAIN existing_config # {}
    /\ DOMAIN existing_config \ DOMAIN new_config # {}

\* C15: after any number of build-config runs on a directory that first held a
\* user-written postgresql.conf and no backup, postgresql.conf.base, whenever
\* it exists, holds that original file and never a generated one.
C15_BaseIsOriginal ==
    (original.exists /\ base.exists) => base = original

\* C16: the copy to postgresql.conf.base is complete before the target is
\* opened for writing, so at every point of the write, a failure part-way
\* included, the backup holds the complete pre-write content of the target.
C16_BackupBeforeTruncate ==
    (pc \in {"backed_up", "opened", "write_failed"} /\ pre_write.exists) =>
        base = pre_write

\* the write failed after the header; the old content survives in the backup
C16_Witness ==
    /\ pc = "write_failed"
    /\ pre_write.exists
    /\ Len(pre_write.lines) > 2
    /\ conf = File(Header)
    /\ base = pre_write

MemoryKeys ==
    {Key("shared_buffers"), Key("effective_cache_size"),
     Key("maintenance_work_mem"), Key("wal_buffers"), Key("work_mem")}
ParallelKeys ==
    {Key("max_worker_processes"), Key("max_parallel_workers_per_gather"),
     Key("max_parallel_workers"), Key("max_parallel_maintenance_workers")}
Running == pc \in {"formatted", "crashed", "backed_up", "opened", "written",
                   "write_failed"}

\* C17: missing input facts are never fatal: with total_memory absent the five
\* memory getters return absent and build-config completes without error,
\* writing a file that omits those keys unless the existing file defines them;
\* likewise the parallel keys when cpu_num is absent.
C17_MissingFactsNotFatal ==
    /\ (Running /\ state.total_memory = None) =>
           /\ get_shared_buffers(state) = None
           /\ get_effective_cache_size(state) = None
           /\ get_maintenance_work_mem(state) = None
           /\ get_wal_buffers(state) = None
           /\ get_work_mem(state) = None
           /\ pc # "crashed"
    /\ (pc = "written" /\ state.total_memory = None) =>
           WrittenKeys(conf) \cap MemoryKeys \subseteq DOMAIN existing_config
    /\ (pc = "written" /\ state.cpu_num = None) =>
           WrittenKeys(conf) \cap ParallelKeys \subseteq DOMAIN existing_config

PgssKeys ==
    {Key("shared_preload_libraries"), Key("pg_stat_statements.track"),
     Key("pg_stat_statements.max")}

\* C18: after every build-config run on a directory whose original
\* user-written config does not define them, the written postgresql.conf holds
\* the three pg_stat_statements settings when the run's toggle is true and
\* none of the three keys when it is false, whatever earlier runs used.
C18_ToggleDecides ==
    (/\ pc = "written"
     /\ original.exists
     /\ DOMAIN read_lines(original.lines, EmptyMap) \cap PgssKeys = {}) =>
        IF enable
        THEN /\ PgssKeys \subseteq WrittenKeys(conf)
             /\ WrittenValue(conf, Key("shared_preload_libraries"))
                    = <<"'", "pg_stat_statements", "'">>
             /\ WrittenValue(conf, Key("pg_stat_statements.track"))
                    = <<"'", "all", "'">>
             /\ WrittenValue(conf, Key("pg_stat_statements.max"))
                    = <<"1", "0", "0", "0", "0">>
        ELSE WrittenKeys(conf) \cap PgssKeys = {}

(***************************************************************************)
(* Properties of the pgbouncer generator                                   *)
(***************************************************************************)
Validated == pc \in {"validated", "userlist_written", "hba_written", "failed", "done"}
PoolUserNames == {pool_config.users[i].username : i \in 1..Len(pool_config.users)}
Listed(opt) == opt = None \/ \A i \in 1..Len(opt[1]) : opt[1][i] \in PoolUserNames
NotWritten(f) == f \in {NoFile, OldFile}

\* C19: constructing a MainConfig succeeds if and only if every username in
\* pgbouncer.admin_users and in pgbouncer.stats_users is the username of an
\* entry in users (absent lists count as empty); when validation fails,
\* generate writes none of the three files and exits non-zero.
C19_ListedUsersMustExist ==
    /\ Validated =>
           /\ Listed(pool_config.pgbouncer.admin_users)
           /\ Listed(pool_config.pgbouncer.stats_users)
    /\ pc = "invalid" =>
           /\ ~(/\ Listed(pool_config.pgbouncer.admin_users)
                /\ Listed(pool_config.pgbouncer.stats_users))
           /\ NotWritten(outdir.userlist)
           /\ NotWritten(outdir.hba)
           /\ NotWritten(outdir.ini)
           /\ exit_code # None /\ exit_code # Some(0)

\* an unknown stats user alone made validation fail; nothing was written
C19_Witness ==
    /\ pc = "invalid"
    /\ pool_config.pgbouncer.admin_users = Some(<<"alice">>)
    /\ pool_config.pgbouncer.stats_users = Some(<<"ghost">>)
    /\ "alice" \in PoolUserNames
    /\ outdir = OutDir(NoFile, NoFile, NoFile)
    /\ exit_code = Some(1)

\* C20: pool-config generation is all-or-nothing: when generate terminates,
\* with success or with any error, the output directory holds either all
\* three newly written files or none of them.
C20_AllOrNothing ==
    pc \in {"no_config", "invalid", "failed", "done"} =>
        \/ NotWritten(outdir.userlist) /\ NotWritten(outdir.hba)
               /\ NotWritten(outdir.ini)
        \/ ~NotWritten(outdir.userlist) /\ ~NotWritten(outdir.hba)
               /\ ~NotWritten(outdir.ini)

\* C21: write_userlist_file called with auth mode scram-sha-256 fails with a
\* not-implemented error for every list of users, the empty list included,
\* and never writes a plaintext password; it never completes as if the mode
\* were supported.
C21_ScramAlwaysFails ==
    (/\ pc \in {"userlist_written", "hba_written", "failed", "done"}
     /\ pool_config.pgbouncer.auth_type = "scram-sha-256") =>
        /\ pc = "failed"
        /\ \A i \in 1..Len(outdir.userlist.lines) :
               \A j \in 1..Len(outdir.userlist.lines[i]) :
                   outdir.userlist.lines[i][j] # "secret"

\* the HBA file as written, and the fields of its lines
HbaWritten == pc \in {"hba_written", "done"}
HbaLines == outdir.hba.lines
IsAllow(line) == line[1] \in {"local", "host"} /\ line[2] # "all"
IsDeny(line) == line[1] = "host" /\ line[2] = "all"
Granted(username, pool) ==
    \E i \in 1..Len(pool_config.users) :
        /\ pool_config.users[i].username = username
        /\ \E g \in 1..Len(pool_config.users[i].grants) :
               pool_config.users[i].grants[g] = pool
\* the lines of the given type and address that allow the pair
AllowLines(type, username, pool, address) ==
    {i \in 2..Len(HbaLines) :
        /\ HbaLines[i][1] = type
        /\ HbaLines[i][2] = pool
        /\ HbaLines[i][3] = username
        /\ HbaLines[i][4] = address}

C23_AllowBeforeDeny ==
    HbaWritten =>
        \A i, j \in 2..Len(HbaLines) :
            (/\ IsAllow(HbaLines[i])
             /\ IsDeny(HbaLines[j])
             /\ HbaLines[i][3] = HbaLines[j][3]) => i < j

\* C24: for every value of pgbouncer.auth_type the METHOD field of every
\* allow line written to the HBA file equals that configured auth method.
C24_AllowMethodIsConfigured ==
    HbaWritten =>
        \A i \in 2..Len(HbaLines) :
            IsAllow(HbaLines[i]) =>
                HbaLines[i][5] = pool_config.pgbouncer.auth_type

\* the 'key = value' lines of one section of an INI file
SectionLines(lines, section) ==
    LET header == CHOOSE i \in 1..Len(lines) : lines[i] = <<"[", section, "]">>
        blank == CHOOSE j \in header..Len(lines) :
                     /\ lines[j] = <<>>
                     /\ \A k \in header..(j - 1) : lines[k] # <<>>
    IN SubSeq(lines, header + 1, blank - 1)

\* the formatted values the lines give to a key
ValuesOf(lines, k) ==
    {SubSeq(lines[i], 5, Len(lines[i])) :
        i \in {j \in 1..Len(lines) : SubSeq(lines[j], 1, 4) = <<k, " ", "=", " ">>}}

\* C25: the [pgbouncer] section written by generate_pgbouncer_config has
\* auth_type = hba, auth_file = the path of the userlist file just written and
\* auth_hba_file = the path of the HBA file just written, whatever the
\* PgbouncerConfig and its passthrough_kwargs
C25_AuthFilesPointAtWrittenFiles ==
    pc = "done" =>
        LET section == SectionLines(outdir.ini.lines, "pgbouncer")
        IN /\ ValuesOf(section, "auth_type") = {format_ini_value(Str("hba"))}
           /\ ValuesOf(section, "auth_file") = {format_ini_value(Str(UserlistPath))}
           /\ ValuesOf(section, "auth_hba_file") = {format_ini_value(Str(HbaPath))}

(***************************************************************************)
(* Properties of write_ini_file (specification SpecIni)                    *)
(***************************************************************************)
\* the text a value is written as, stated from the value's type
IniText(x) ==
    CASE x.t = "bool" -> IF x.v THEN <<"1">> ELSE <<"0">>
      [] x.t = "int" -> py_str(x.v)
      [] x.t = "float" -> py_str(x.whole) \o <<".">> \o py_str(x.frac)
      [] x.t = "str" -> <<"\"">> \o x.v \o <<"\"">>
      [] x.t = "list" -> JoinItems(x.v)
      [] x.t = "none" -> <<>>

\* the values that get a line: every value but None as stated, and every value
\* but None and the empty list as amended
GetsLine(x, as_stated) ==
    IF as_stated THEN x.t # "none" ELSE x.t # "none" /\ x # PyList(<<>>)

\* the lines of section number n of the configuration
ExpectedSection(n, as_stated) ==
    LET section == args.config[n].section
        items == args.config[n].items
        lines == SelectSeq(items, LAMBDA kv : GetsLine(kv.value, as_stated))
    IN (IF section \in DOMAIN args.section_comments
        THEN <<<<"#", " ", args.section_comments[section]>>>> ELSE <<>>)
           \o <<<<"[", section, "]">>>>
           \o [i \in 1..Len(lines) |->
                  <<lines[i].key, " ", "=", " ">> \o IniText(lines[i].value)]
           \o <<<<>>>>

ExpectedIni(as_stated) ==
    IF Len(args.config) = 1 THEN ExpectedSection(1, as_stated)
    ELSE ExpectedSection(1, as_stated) \o ExpectedSection(2, as_stated)

\* a 'key = ' line with nothing after the equals sign
EmptyValueLine(line) ==
    Len(line) = 4 /\ line[2] = " " /\ line[3] = "=" /\ line[4] = " "

IsReference(x) == x.t = "str" /\ x.v # <<>> /\ Head(x.v) = "$"

RECURSIVE References(_)
\* the names of the environment variables an object refers to, at any depth
References(x) ==
    CASE x.t = "dict" -> UNION {References(x.v[i].value) : i \in 1..Len(x.v)}
      [] x.t = "list" -> UNION {References(x.v[i]) : i \in 1..Len(x.v)}
      [] OTHER -> IF IsReference(x) THEN {Tail(x.v)} ELSE {}

RECURSIVE Substituted(_, _, _)
\* out has the shape of x, with every reference replaced by the value of its
\* variable and everything else, keys included, as in x
Substituted(x, out, environ) ==
    CASE x.t = "dict" ->
             /\ out.t = "dict"
             /\ Len(out.v) = Len(x.v)
             /\ \A i \in 1..Len(x.v) :
                    /\ out.v[i].key = x.v[i].key
                    /\ Substituted(x.v[i].value, out.v[i].value, environ)
      [] x.t = "list" ->
             /\ out.t = "list"
             /\ Len(out.v) = Len(x.v)
             /\ \A i \in 1..Len(x.v) : Substituted(x.v[i], out.v[i], environ)
      [] OTHER ->
             IF IsReference(x) THEN out = PyStr(environ[Tail(x.v)]) ELSE out = x

\* C27: swap_env returns a structure of the same shape as its input in which
\* every string starting with '$', at any depth of dicts and lists, is replaced
\* by the value of the environment variable named by the rest of the string
\* and every other value and every key is unchanged; if a referenced variable
\* is unset it raises instead of returning a partly substituted structure
C27_SwapEnv ==
    pc = "env_done" =>
        IF References(args.obj) \subseteq DOMAIN args.environ
        THEN /\ ~result.value.raised
             /\ Substituted(args.obj, result.value.value, args.environ)
        ELSE result.value.raised

\* a nested reference is replaced next to an untouched key that starts with '$'
C27_Witness ==
    /\ pc = "env_done"
    /\ args.obj = PyList(<<PyInt(5432),
                           PyDict(<<KV("username", PyStr(<<"$", "DB_USER">>)),
                                    KV("$DB_USER", PyStr(<<"cost", "$", "5">>))>>)>>)
    /\ args.environ = [name \in {<<"DB_USER">>} |-> <<"admin">>]
    /\ result.value.value =
           PyList(<<PyInt(5432),
                    PyDict(<<KV("username", PyStr(<<"admin">>)),
                             KV("$DB_USER", PyStr(<<"cost", "$", "5">>))>>)>>)

(***************************************************************************)
(* Frame and history properties of PostgresConfig (specification Spec)     *)
(***************************************************************************)
GetterNames ==
    {"get_max_connections", "get_shared_buffers", "get_effective_cache_size",
     "get_maintenance_work_mem", "get_wal_buffers", "get_parallel_settings",
     "get_work_mem", "get_wal_level"}

\* what getter op returns on the stored configuration s
GetterOf(op, s) ==
    CASE op = "get_max_connections" -> get_max_connections(s)
      [] op = "get_shared_buffers" -> get_shared_buffers(s)
      [] op = "get_effective_cache_size" -> get_effective_cache_size(s)
      [] op = "get_maintenance_work_mem" -> get_maintenance_work_mem(s)
      [] op = "get_wal_buffers" -> get_wal_buffers(s)
      [] op = "get_parallel_settings" -> get_parallel_settings(s)
      [] op = "get_work_mem" -> get_work_mem(s)
      [] op = "get_wal_level" -> get_wal_level(s)

\* the configuration a payload stands for: the default one when there is no
\* payload, numbers that are absent, falsy or not numeric read as None
StoredFor(opt) ==
    IF opt = None THEN InitialState
    ELSE LET payload == opt[1]
         IN [db_version |-> payload.db_version,
             os_type |-> payload.os_type,
             db_type |-> payload.db_type,
             total_memory |-> IntOrNone(payload.total_memory),
             total_memory_unit |-> payload.total_memory_unit,
             cpu_num |-> IntOrNone(payload.cpu_num),
             connection_num |-> IntOrNone(payload.connection_num),
             hd_type |-> payload.hd_type]

\* C28 as stated: no get_* call changes the stored configuration, and every
\* get_* result is that of the most recently submitted payload, or of the
\* default configuration directly after construction or reset_configuration
C28_AsStated ==
    /\ state = StoredFor(submitted.accepted)
    /\ result.op \in GetterNames =>
           result.value = GetterOf(result.op, StoredFor(submitted.payload))

\* C28 (amended): no get_* call changes the stored configuration, and the
\* result of every get_* call is a function only of the most recently accepted
\* payload (or of the default configuration when none was accepted since
\* construction or reset_configuration); a submit_configuration that raises
\* leaves the stored configuration as it was
C28_GettersArePure ==
    /\ state = StoredFor(submitted.accepted)
    /\ result.op \in GetterNames =>
           result.value = GetterOf(result.op, StoredFor(submitted.accepted))

\* a getter answers from an accepted payload after a later one was rejected
C28_Witness ==
    /\ submitted.payload # None
    /\ submitted.payload # submitted.accepted
    /\ submitted.accepted # None
    /\ result.op = "get_max_connections"
    /\ result.value # get_max_connections(InitialState)

\* the max_parallel_workers_per_gather of the stored configuration, or 1
WorkersPerGather ==
    LET settings == get_parallel_settings(state)
        gather == {i \in 1..Len(settings) :
                      /\ settings[i].key = "max_parallel_workers_per_gather"
                      /\ settings[i].value > 0}
    IN IF gather = {} THEN 1 ELSE settings[CHOOSE i \in gather : TRUE].value

\* the memory left after shared_buffers, in kB
LeftAfterSharedBuffers ==
    state.total_memory[1] * KB_PER_UNIT[state.total_memory_unit]
        - get_shared_buffers(state)[1]

PositiveFacts ==
    /\ state.total_memory # None
    /\ state.total_memory[1] > 0
    /\ get_max_connections(state) > 0

\* C29: with positive total_memory and max_connections, memory_kb -
\* shared_buffers is never negative, and a work_mem above the 64 kB floor,
\* taken by every connection three times over and by every parallel worker,
\* fits in the memory left after shared_buffers
C29_WorkMemFits ==
    (result.op = "get_work_mem" /\ PositiveFacts) =>
        /\ LeftAfterSharedBuffers >= 0
        /\ result.value[1] > 64 =>
               result.value[1] * get_max_connections(state) * 3 * WorkersPerGather
                   <= LeftAfterSharedBuffers

\* a work_mem above the floor computed with several parallel workers
C29_Witness ==
    /\ result.op = "get_work_mem"
    /\ PositiveFacts
    /\ result.value[1] > 64
    /\ WorkersPerGather > 1
    /\ state.db_type = "web"

(***************************************************************************)
(* Repeated runs of build-config (specification SpecBuild)                 *)
(***************************************************************************)
\* this run has the Configuration and the toggle of the previous run, which
\* wrote postgresql.conf completely
SameInputsAsLastRun == last_run = Some(<<state, enable>>)

\* C30: build-config is idempotent under unchanged inputs: run n+1 on the
\* directory run n left, with an identical Configuration, writes a
\* postgresql.conf identical to the one run n wrote (same keys, same values,
\* same quoting)
C30_Idempotent ==
    (pc = "written" /\ SameInputsAsLastRun) => conf = pre_write

====
